---- MODULE Spec2Model ----
(***************************************************************************)
(* FIDS-TUI: the split-flap animation engine (AnimatedText), the flight    *)
(* row (FlightRow) and the paginated board (Board).                        *)
(*                                                                         *)
(* Texts are sequences of one-character strings (Go indexes them by byte). *)
(* A time.Time is a record [t, loc]: t the instant in minutes, loc the     *)
(* location's offset from UTC in minutes; time.Now() of the animation is   *)
(* the variable now, in milliseconds of the monotonic clock.               *)
(***************************************************************************)
EXTENDS Integers, Sequences, FiniteSets, TLC

VARIABLES
    board,      \* the Board: Flights (row references), CurrentPage, TotalPages,
                \* AirportCode, AirportTZ, FlightsPerPage, Error
    rows,       \* the heap of FlightRow objects: row reference -> FlightRow or Nil (free)
    now,        \* the clock read by time.Now() and time.Since()
    last,       \* the call that produced this state and what it returned
    nUpdates,   \* number of UpdateFlights calls so far (bounded by MaxUpdates)
    at,         \* one free-standing AnimatedText (specification SpecField)
    sortIn,     \* the slice handed to sort.Slice (specification SpecSort)
    sortOut,    \* the slice as sort.Slice left it, or <<>> before the call
    app,        \* the bubbletea model of main.go and its fetches in flight
                \* (specification SpecApp)
    conc        \* goroutines calling into one FlightRow, and its locks
                \* (specification SpecLock)

vars == <<board, rows, now, last, nUpdates, at, sortIn, sortOut, app, conc>>

\* a nil pointer (every pointer target of the model is a record)
Nil == [nil |-> TRUE]

-----------------------------------------------------------------------------
(* Bounds of the model *)

\* longest snapshot list handed to UpdateFlights in Spec
MaxFlights == 3
\* UpdateFlights calls in one behaviour
MaxUpdates == 2
\* Spec: the clock stops after MaxClock steps of ClockStep milliseconds
MaxClock == 2
\* milliseconds of one clock step of Spec: the length of a whole blink
ClockStep == 300
\* widths of the free-standing AnimatedText of SpecField: 1..MaxWidth
MaxWidth == 2
\* SpecField: the clock stops after MaxFieldClock steps of one blink phase
MaxFieldClock == 4

-----------------------------------------------------------------------------
(* Helpers on texts *)

Min(a, b) == IF a < b THEN a ELSE b

Max(a, b) == IF a > b THEN a ELSE b

Spaces(n) == [i \in 1..n |-> " "]

\* s[:n] of Go for n <= len(s)
Prefix(s, n) == SubSeq(s, 1, n)

Digits == <<"0", "1", "2", "3", "4", "5", "6", "7", "8", "9">>

Digit(d) == Digits[d + 1]

-----------------------------------------------------------------------------
(* AnimatedText and CharAnimation *)

\* the zero time.Time of a CharAnimation that never blinked
ZeroTime == 0 - 1

NewAnimatedText(maxLength) ==
    [OldText |-> <<>>, NewText |-> <<>>,
     Chars |-> [i \in 1..maxLength |-> Nil], MaxLength |-> maxLength]

\* "Pad or truncate to max length"
PadOrTruncate(text, maxLength) ==
    IF Len(text) > maxLength
    THEN Prefix(text, maxLength)
    ELSE text \o Spaces(maxLength - Len(text))

\* a faulty Update that settles the cells whose character did not change
UpdateCharSettles(cell, oldChar, newChar, t) ==
    IF oldChar # newChar
    THEN [OldChar |-> oldChar, NewChar |-> newChar, State |-> "Blinking",
          BlinkPhase |-> 0, StartTime |-> t]
    ELSE IF cell = Nil
    THEN [OldChar |-> oldChar, NewChar |-> newChar, State |-> "Stable",
          BlinkPhase |-> 0, StartTime |-> ZeroTime]
    ELSE [cell EXCEPT !.State = "Stable"]

\* the cell at position i after Update(newText), oldText and newText normalised
UpdateChar(cell, oldChar, newChar, t) ==
    LET c == IF cell = Nil
             THEN [OldChar |-> oldChar, NewChar |-> newChar, State |-> "Stable",
                   BlinkPhase |-> 0, StartTime |-> ZeroTime]
             ELSE cell
    IN  IF oldChar # newChar
        THEN [OldChar |-> oldChar, NewChar |-> newChar, State |-> "Blinking",
              BlinkPhase |-> 0, StartTime |-> t]
        ELSE c

\* a faulty Update that restarts the blink of every cell, changed or not
AnimatedTextUpdateAll(a, text, t) ==
    LET newText == PadOrTruncate(text, a.MaxLength)
        oldText == PadOrTruncate(a.OldText, a.MaxLength)
    IN  [OldText |-> newText, NewText |-> newText,
         Chars |-> [i \in 1..a.MaxLength |->
                       [OldChar |-> oldText[i], NewChar |-> newText[i],
                        State |-> "Blinking", BlinkPhase |-> 0, StartTime |-> t]],
         MaxLength |-> a.MaxLength]

AnimatedTextUpdate(a, text, t) ==
    LET newText == PadOrTruncate(text, a.MaxLength)
        oldText == PadOrTruncate(a.OldText, a.MaxLength)
    IN  [OldText |-> newText, NewText |-> newText,
         Chars |-> [i \in 1..a.MaxLength |->
                       UpdateChar(a.Chars[i], oldText[i], newText[i], t)],
         MaxLength |-> a.MaxLength]

\* milliseconds after which a blinking cell completes
BlinkDoneMs == 300

\* milliseconds of one blink phase
BlinkPhaseMs == 100

\* a faulty Tick of a cell that completes a blink only after 3000 ms
TickCharSlow(cell, t) ==
    IF cell = Nil THEN cell
    ELSE IF cell.State = "Blinking"
    THEN LET elapsed == t - cell.StartTime
         IN  [cell EXCEPT !.BlinkPhase = (elapsed \div BlinkPhaseMs) % 2,
                          !.State = IF elapsed > 10 * BlinkDoneMs
                                    THEN "Complete" ELSE "Blinking"]
    ELSE IF cell.State = "Complete"
    THEN [cell EXCEPT !.State = "Stable"]
    ELSE cell

TickChar(cell, t) ==
    IF cell = Nil THEN cell
    ELSE IF cell.State = "Blinking"
    THEN LET elapsed == t - cell.StartTime
         IN  [cell EXCEPT !.BlinkPhase = (elapsed \div BlinkPhaseMs) % 2,
                          !.State = IF elapsed > BlinkDoneMs
                                    THEN "Complete" ELSE "Blinking"]
    ELSE IF cell.State = "Complete"
    THEN [cell EXCEPT !.State = "Stable"]
    ELSE cell

\* a faulty Tick that settles a cell in the call that completes its blink
AnimatedTextTickTwice(a, t) ==
    [a EXCEPT !.Chars = [i \in 1..a.MaxLength |-> TickChar(TickChar(a.Chars[i], t), t)]]

AnimatedTextTick(a, t) ==
    [a EXCEPT !.Chars = [i \in 1..a.MaxLength |-> TickChar(a.Chars[i], t)]]

\* a faulty Render of a cell that shows the light block first
RenderCharLightFirst(cell) ==
    IF cell = Nil THEN " "
    ELSE IF cell.State = "Blinking"
    THEN (IF cell.BlinkPhase = 0 THEN "#light" ELSE "#solid")
    ELSE cell.NewChar

RenderChar(cell) ==
    IF cell = Nil THEN " "
    ELSE IF cell.State = "Blinking"
    THEN (IF cell.BlinkPhase = 0 THEN "#solid" ELSE "#light")
    ELSE cell.NewChar

\* a faulty Render that returns the stored text instead of the cells' characters
AnimatedTextRenderText(a) == a.NewText

\* result is make([]rune, MaxLength), filled while ranging over Chars
AnimatedTextRender(a) ==
    [i \in 1..a.MaxLength |-> RenderChar(a.Chars[i])]

IsAnimating(a) ==
    \E i \in 1..a.MaxLength : a.Chars[i] # Nil /\ a.Chars[i].State = "Blinking"

-----------------------------------------------------------------------------
(* models.Flight and time.Time *)

\* *time.Location values: GetAirportTimezone returns time.UTC or a loaded zone
UTC == [name |-> "UTC", offset |-> 0]

London == [name |-> "Europe/London", offset |-> 0]

Berlin == [name |-> "Europe/Berlin", offset |-> 60]

\* Time.In(loc): the same instant, shown in loc
In(time, loc) == [time EXCEPT !.loc = loc]

\* Time.Before compares instants
Before(t1, t2) == t1.t < t2.t

\* Time.Format("15:04"): hour and minute of the instant in the time's location
Format1504(time) ==
    LET m == (time.t + time.loc.offset) % 1440
        hh == m \div 60
        mm == m % 60
    IN  <<Digit(hh \div 10), Digit(hh % 10), ":", Digit(mm \div 10), Digit(mm % 10)>>

RemarksOnTime == <<"O", "n", " ", "T", "i", "m", "e">>

RemarksDelayed == <<"D", "e", "l", "a", "y", "e", "d">>

RemarksCancelled == <<"C", "a", "n", "c", "e", "l", "l", "e", "d">>

\* fmt.Sprintf("Delayed EST: %s", estTimeStr)
DelayedEst(estTimeStr) ==
    <<"D", "e", "l", "a", "y", "e", "d", " ", "E", "S", "T", ":", " ">> \o estTimeStr

GetDestination(f) ==
    IF f.DestinationCity # <<>>
    THEN f.DestinationCode \o <<" ">> \o f.DestinationCity
    ELSE f.DestinationCode

-----------------------------------------------------------------------------
(* FlightRow *)

getStatusChar(status) ==
    CASE status = "OnTime" -> <<"*">>
      [] status = "Delayed" -> <<"!">>
      [] status = "TaxiingLeftGate" -> <<">">>
      [] status = "TaxiingDelayed" -> <<">">>
      [] status = "Cancelled" -> <<"X">>
      [] OTHER -> <<" ">>

truncate(s, maxLen) == IF Len(s) <= maxLen THEN s ELSE Prefix(s, maxLen)

\* the six field widths of NewFlightRow
StatusWidth == 1

FlightNumWidth == 8

TimeWidth == 8

DestinationWidth == 20

GateWidth == 6

RemarksWidth == 20

\* gate := truncate(flight.Gate, 6); if gate == "" { gate = "     " }
GateText(f) ==
    LET gate == truncate(f.Gate, GateWidth)
    IN  IF gate = <<>> THEN Spaces(5) ELSE gate

\* a faulty FlightRow.Update that restarts the blink of every cell
FlightRowUpdateRestarts(row, flight, t) ==
    [Flight |-> flight,
     StatusAnim |-> AnimatedTextUpdateAll(row.StatusAnim, getStatusChar(flight.Status), t),
     FlightNumAnim |->
        AnimatedTextUpdateAll(row.FlightNumAnim, truncate(flight.FlightNumber, FlightNumWidth), t),
     TimeAnim |-> AnimatedTextUpdateAll(row.TimeAnim, Format1504(flight.ScheduledDeparture), t),
     DestinationAnim |->
        AnimatedTextUpdateAll(row.DestinationAnim,
                              truncate(GetDestination(flight), DestinationWidth), t),
     GateAnim |-> AnimatedTextUpdateAll(row.GateAnim, GateText(flight), t),
     RemarksAnim |->
        AnimatedTextUpdateAll(row.RemarksAnim, truncate(flight.Remarks, RemarksWidth), t)]

\* FlightRow.Update: the snapshot pointer, then the six fields in turn
FlightRowUpdate(row, flight, t) ==
    [Flight |-> flight,
     StatusAnim |-> AnimatedTextUpdate(row.StatusAnim, getStatusChar(flight.Status), t),
     FlightNumAnim |->
        AnimatedTextUpdate(row.FlightNumAnim, truncate(flight.FlightNumber, FlightNumWidth), t),
     TimeAnim |-> AnimatedTextUpdate(row.TimeAnim, Format1504(flight.ScheduledDeparture), t),
     DestinationAnim |->
        AnimatedTextUpdate(row.DestinationAnim,
                           truncate(GetDestination(flight), DestinationWidth), t),
     GateAnim |-> AnimatedTextUpdate(row.GateAnim, GateText(flight), t),
     RemarksAnim |->
        AnimatedTextUpdate(row.RemarksAnim, truncate(flight.Remarks, RemarksWidth), t)]

EmptyFlightRow ==
    [Flight |-> Nil,
     StatusAnim |-> NewAnimatedText(StatusWidth),
     FlightNumAnim |-> NewAnimatedText(FlightNumWidth),
     TimeAnim |-> NewAnimatedText(TimeWidth),
     DestinationAnim |-> NewAnimatedText(DestinationWidth),
     GateAnim |-> NewAnimatedText(GateWidth),
     RemarksAnim |-> NewAnimatedText(RemarksWidth)]

\* a faulty NewFlightRow that lets every cell flip in, blank or not
NewFlightRowAllFlip(flight, t) ==
    IF flight = Nil THEN EmptyFlightRow ELSE FlightRowUpdateRestarts(EmptyFlightRow, flight, t)

\* NewFlightRow(flight): the fields are seeded by the same calls as in Update
NewFlightRow(flight, t) ==
    IF flight = Nil THEN EmptyFlightRow ELSE FlightRowUpdate(EmptyFlightRow, flight, t)

FlightRowTick(row, t) ==
    [Flight |-> row.Flight,
     StatusAnim |-> AnimatedTextTick(row.StatusAnim, t),
     FlightNumAnim |-> AnimatedTextTick(row.FlightNumAnim, t),
     TimeAnim |-> AnimatedTextTick(row.TimeAnim, t),
     DestinationAnim |-> AnimatedTextTick(row.DestinationAnim, t),
     GateAnim |-> AnimatedTextTick(row.GateAnim, t),
     RemarksAnim |-> AnimatedTextTick(row.RemarksAnim, t)]

\* a faulty Render that prints the texts of the snapshot instead of the fields
FlightRowRenderRaw(row) ==
    IF row.Flight = Nil
    THEN Spaces(68)
    ELSE getStatusChar(row.Flight.Status) \o <<" ">> \o
         row.Flight.FlightNumber \o <<" ">> \o
         Format1504(row.Flight.ScheduledDeparture) \o <<" ">> \o
         GetDestination(row.Flight) \o <<" ">> \o
         row.Flight.Gate \o <<" ">> \o
         row.Flight.Remarks

\* the visible text of FlightRow.Render (styles add no characters)
FlightRowRender(row) ==
    IF row.Flight = Nil
    THEN Spaces(68)
    ELSE AnimatedTextRender(row.StatusAnim) \o <<" ">> \o
         AnimatedTextRender(row.FlightNumAnim) \o <<" ">> \o
         AnimatedTextRender(row.TimeAnim) \o <<" ">> \o
         AnimatedTextRender(row.DestinationAnim) \o <<" ">> \o
         AnimatedTextRender(row.GateAnim) \o <<" ">> \o
         AnimatedTextRender(row.RemarksAnim)

FieldNames ==
    {"StatusAnim", "FlightNumAnim", "TimeAnim", "DestinationAnim", "GateAnim", "RemarksAnim"}

-----------------------------------------------------------------------------
(* Board *)

\* references to FlightRow objects; a call creates at most MaxFlights rows while
\* the at most MaxFlights distinct rows of the old list are still alive
RowRefs == 1..(2 * MaxFlights)

\* api.GetAirportTimezone for the airports of the model (offsets of a winter day)
GetAirportTimezone(code) ==
    CASE code = "LHR" -> London
      [] code = "FRA" -> Berlin
      [] OTHER -> UTC

\* "Default fallback" of updatePagination, GetCurrentPageFlights and renderPageInfo
DefaultFlightsPerPage == 10

NewBoard(airportCode, airportTZ, flightsPerPage) ==
    [Flights |-> <<>>, CurrentPage |-> 0, TotalPages |-> 1,
     AirportCode |-> airportCode, AirportTZ |-> airportTZ,
     FlightsPerPage |-> flightsPerPage, Error |-> ""]

\* the first loop of UpdateFlights, for one snapshot
ConvertFlight(f, tz) ==
    IF tz = Nil THEN f
    ELSE LET sched == In(f.ScheduledDeparture, tz)
         IN  IF f.EstimatedDeparture = Nil
             THEN [f EXCEPT !.ScheduledDeparture = sched]
             ELSE LET localEst == In(f.EstimatedDeparture, tz)
                  IN  [f EXCEPT !.ScheduledDeparture = sched,
                                !.EstimatedDeparture = localEst,
                                !.Remarks = IF f.Status = "Delayed"
                                            THEN DelayedEst(Format1504(localEst))
                                            ELSE @]

\* less(i, j) of the sort.Slice call
Less(data, i, j) == Before(data[i].ScheduledDeparture, data[j].ScheduledDeparture)

Swap(data, i, j) == [data EXCEPT ![i] = data[j], ![j] = data[i]]

\* insertionSort of package sort on data[a..b] (1-based, inclusive):
\* for j := i; j > a && less(j, j-1); j-- { swap(j, j-1) }
RECURSIVE SinkLeft(_, _, _)
SinkLeft(data, a, j) ==
    IF j > a /\ Less(data, j, j - 1)
    THEN SinkLeft(Swap(data, j, j - 1), a, j - 1)
    ELSE data

RECURSIVE InsertionSort(_, _, _, _)
InsertionSort(data, a, b, i) ==
    IF i > b THEN data ELSE InsertionSort(SinkLeft(data, a, i), a, b, i + 1)

\* order2 of package sort: the pair in order, and whether it was swapped
Order2(data, x, y) ==
    IF Less(data, y, x) THEN [lo |-> y, hi |-> x, swaps |-> 1]
    ELSE [lo |-> x, hi |-> y, swaps |-> 0]

\* choosePivot for 8 <= len < 50: the median of the elements at len/4, 2*len/4
\* and 3*len/4 (0-based), and the number of swaps that found it
ChoosePivot(data) ==
    LET q == Len(data) \div 4
        s1 == Order2(data, q + 1, 2 * q + 1)
        s2 == Order2(data, s1.hi, 3 * q + 1)
        s3 == Order2(data, s1.lo, s2.lo)
    IN  [pivot |-> s3.hi, swaps |-> s1.swaps + s2.swaps + s3.swaps]

\* partialInsertionSort on fewer than 50 elements: true iff already in order
\* (it shifts nothing on short slices)
PartialInsertionSorted(data) ==
    \A i \in 2..Len(data) : ~Less(data, i, i - 1)

RECURSIVE ScanUp(_, _, _, _)
ScanUp(data, a, i, j) ==
    IF i <= j /\ Less(data, i, a) THEN ScanUp(data, a, i + 1, j) ELSE i

RECURSIVE ScanDown(_, _, _, _)
ScanDown(data, a, i, j) ==
    IF i <= j /\ ~Less(data, j, a) THEN ScanDown(data, a, i, j - 1) ELSE j

\* the loops of partition, the pivot already swapped to position a
RECURSIVE PartitionLoop(_, _, _, _)
PartitionLoop(data, a, i, j) ==
    LET i2 == ScanUp(data, a, i, j)
        j2 == ScanDown(data, a, i2, j)
    IN  IF i2 > j2
        THEN [data |-> Swap(data, j2, a), mid |-> j2]
        ELSE PartitionLoop(Swap(data, i2, j2), a, i2 + 1, j2 - 1)

Partition(data, pivot) == PartitionLoop(Swap(data, 1, pivot), 1, 2, Len(data))

\* pdqsort on 13 elements: one partition, then both sides (at most 12 elements
\* each) are insertion-sorted
PdqSort13(data) ==
    LET c == ChoosePivot(data)
    IN  IF c.swaps = 0 /\ PartialInsertionSorted(data)
        THEN data
        ELSE LET p == Partition(data, c.pivot)
                 left == InsertionSort(p.data, 1, p.mid - 1, 2)
             IN  InsertionSort(left, p.mid + 1, Len(data), p.mid + 2)

\* sort.Slice(flights, less) of Go 1.24 (pdqsort): up to 12 elements are
\* insertion-sorted; the model follows the algorithm for up to 13 elements
SortSlice(flights) ==
    IF Len(flights) <= 12
    THEN InsertionSort(flights, 1, Len(flights), 2)
    ELSE PdqSort13(flights)

Range(seq) == {seq[i] : i \in 1..Len(seq)}

\* a faulty existingMap that finds no row, so that every entry gets a new row
ExistingMapNone(b, heap) == [key \in {} |-> 0]

\* existingMap: flight number -> row; a later row of b.Flights overwrites an
\* earlier one with the same flight number
ExistingMap(b, heap) ==
    LET keyAt(i) == heap[b.Flights[i]].Flight.FlightNumber
        idx == {i \in 1..Len(b.Flights) : heap[b.Flights[i]].Flight # Nil}
    IN  [key \in {keyAt(i) : i \in idx} |->
            b.Flights[CHOOSE i \in idx : /\ keyAt(i) = key
                                         /\ \A j \in idx : keyAt(j) = key => j <= i]]

\* the reference of a newly allocated FlightRow
NewRef(heap) == CHOOSE r \in RowRefs : heap[r] = Nil /\ \A q \in RowRefs : heap[q] = Nil => r <= q

\* "Update or create flight rows": the loop over the sorted snapshots from index i
RECURSIVE BuildRows(_, _, _, _, _, _)
BuildRows(flights, i, existingMap, heap, newRows, t) ==
    IF i > Len(flights)
    THEN [heap |-> heap, newRows |-> newRows]
    ELSE LET flight == flights[i]
             key == flight.FlightNumber
         IN  IF key \in DOMAIN existingMap
             THEN LET existingRow == existingMap[key]
                  IN  BuildRows(flights, i + 1, existingMap,
                                [heap EXCEPT ![existingRow] = FlightRowUpdate(@, flight, t)],
                                Append(newRows, existingRow), t)
             ELSE LET row == NewRef(heap)
                  IN  BuildRows(flights, i + 1, existingMap,
                                [heap EXCEPT ![row] = NewFlightRow(flight, t)],
                                Append(newRows, row), t)

\* the page size in effect in updatePagination
PaginationPageSize(b) ==
    IF b.FlightsPerPage <= 0 THEN DefaultFlightsPerPage ELSE b.FlightsPerPage

\* a faulty updatePagination that recomputes TotalPages and leaves CurrentPage
updatePaginationNoClamp(b) ==
    LET flightsPerPage == PaginationPageSize(b)
        totalFlights == Len(b.Flights)
    IN  IF totalFlights = 0
        THEN [b EXCEPT !.TotalPages = 1]
        ELSE [b EXCEPT !.TotalPages = (totalFlights + flightsPerPage - 1) \div flightsPerPage]

updatePagination(b) ==
    LET flightsPerPage == PaginationPageSize(b)
        totalFlights == Len(b.Flights)
    IN  IF totalFlights = 0
        THEN [b EXCEPT !.TotalPages = 1, !.CurrentPage = 0]
        ELSE LET totalPages == (totalFlights + flightsPerPage - 1) \div flightsPerPage
                 clamped == IF b.CurrentPage >= totalPages
                            THEN totalPages - 1 ELSE b.CurrentPage
             IN  [b EXCEPT !.TotalPages = totalPages,
                           !.CurrentPage = IF clamped < 0 THEN 0 ELSE clamped]

\* the snapshots as UpdateFlights lays them out: converted, then sorted in place
SortedFlights(b, flights) ==
    SortSlice([i \in 1..Len(flights) |-> ConvertFlight(flights[i], b.AirportTZ)])

\* Board.UpdateFlights: the board and the heap after the call; rows that are no
\* longer referenced are garbage
UpdateFlightsResult(b, heap, flights, t) ==
    LET built == BuildRows(SortedFlights(b, flights), 1, ExistingMap(b, heap), heap, <<>>, t)
    IN  [board |-> updatePagination([b EXCEPT !.Flights = built.newRows]),
         rows |-> [r \in RowRefs |->
                      IF r \in Range(built.newRows) THEN built.heap[r] ELSE Nil]]

\* a faulty NextPage that does not wrap around
NextPageNoWrap(b) == [b EXCEPT !.CurrentPage = b.CurrentPage + 1]

NextPageResult(b) ==
    LET b1 == updatePagination(b)
    IN  [b1 EXCEPT !.CurrentPage = (b1.CurrentPage + 1) % b1.TotalPages]

\* the page size in effect in GetCurrentPageFlights
PageSize(b) ==
    IF b.FlightsPerPage <= 0 THEN DefaultFlightsPerPage ELSE b.FlightsPerPage

\* an entry of the returned page: a row of b.Flights, or a new NewFlightRow(nil)
Filler == [ref |-> 0]

\* a faulty GetCurrentPageFlights that returns the rows of the page without
\* filling it up
GetCurrentPageFlightsNoFill(b) ==
    LET flightsPerPage == PageSize(b)
        start == b.CurrentPage * flightsPerPage
        copyCount == Max(0, Min(flightsPerPage, Len(b.Flights) - start))
    IN  [i \in 1..copyCount |-> [ref |-> b.Flights[start + i]]]

\* Board.GetCurrentPageFlights
GetCurrentPageFlights(b) ==
    LET flightsPerPage == PageSize(b)
        start == b.CurrentPage * flightsPerPage
        end == start + flightsPerPage
        actualEnd == IF start >= Len(b.Flights) THEN start
                     ELSE IF end > Len(b.Flights) THEN Len(b.Flights) ELSE end
        copyCount == IF start < Len(b.Flights) THEN actualEnd - start ELSE 0
    IN  [i \in 1..flightsPerPage |->
            IF i <= copyCount THEN [ref |-> b.Flights[start + i]] ELSE Filler]

\* Board.Tick: row.Tick() for every entry of b.Flights from index i, in order
RECURSIVE TickRows(_, _, _, _)
TickRows(flights, i, heap, t) ==
    IF i > Len(flights) THEN heap
    ELSE TickRows(flights, i + 1,
                  [heap EXCEPT ![flights[i]] = FlightRowTick(@, t)], t)

\* a faulty SetAirport that also clears the error banner
SetAirportClearsError(b, airportCode, airportTZ) ==
    [b EXCEPT !.AirportCode = airportCode, !.AirportTZ = airportTZ, !.CurrentPage = 0,
              !.Error = ""]

SetAirportResult(b, airportCode, airportTZ) ==
    [b EXCEPT !.AirportCode = airportCode, !.AirportTZ = airportTZ, !.CurrentPage = 0]

SetFlightsPerPageResult(b, flightsPerPage) ==
    [b EXCEPT !.FlightsPerPage = flightsPerPage]

-----------------------------------------------------------------------------
(* The snapshots the data source delivers (values of convertToFlight) *)

AtUTC(minutes) == [t |-> minutes, loc |-> UTC]

\* "BA 114" to New York, 10:00 UTC, on time, gate A1
FlightBA ==
    [Status |-> "OnTime", FlightNumber |-> <<"B", "A", " ", "1", "1", "4">>,
     DestinationCode |-> <<"J", "F", "K">>,
     DestinationCity |-> <<"N", "e", "w", " ", "Y", "o", "r", "k">>,
     Gate |-> <<"A", "1">>, Remarks |-> RemarksOnTime,
     ScheduledDeparture |-> AtUTC(600), EstimatedDeparture |-> Nil]

\* the same flight after a gate change
FlightBAGate == [FlightBA EXCEPT !.Gate = <<"A", "2", "2">>]

\* the same flight delayed, estimated 14:30 UTC
FlightBADelayed ==
    [FlightBA EXCEPT !.Status = "Delayed", !.Remarks = RemarksDelayed,
                     !.EstimatedDeparture = AtUTC(870)]

\* "UA 7" at the same scheduled time, no destination city, no gate
FlightUA ==
    [Status |-> "OnTime", FlightNumber |-> <<"U", "A", " ", "7">>,
     DestinationCode |-> <<"S", "F", "O">>, DestinationCity |-> <<>>,
     Gate |-> <<>>, Remarks |-> RemarksOnTime,
     ScheduledDeparture |-> AtUTC(600), EstimatedDeparture |-> Nil]

\* an earlier, cancelled flight whose number, destination and gate are longer
\* than their columns
FlightLH ==
    [Status |-> "Cancelled",
     FlightNumber |-> <<"D", "L", "H", " ", "4", "0", "0", "A", "B">>,
     DestinationCode |-> <<"F", "R", "A">>,
     DestinationCity |-> <<"F", "r", "a", "n", "k", "f", "u", "r", "t", " ", "a", "m",
                           " ", "M", "a", "i", "n", " ", "I", "n", "t", "l">>,
     Gate |-> <<"T", "5", "-", "B", "4", "4", "X">>, Remarks |-> RemarksCancelled,
     ScheduledDeparture |-> AtUTC(540), EstimatedDeparture |-> Nil]

\* Spec: one flight in three versions and a second flight, in lists of up to
\* MaxFlights - 1 snapshots, in any order, repeats included
Catalog == {FlightBA, FlightBAGate, FlightBADelayed, FlightLH}

FetchLists == UNION {[1..n -> Catalog] : n \in 0..(MaxFlights - 1)}

Airports == {"LHR", "FRA"}

\* cfg.FlightsPerPage of Spec: one row per page, so that rows lie off the page
ConfiguredFlightsPerPage == 1

\* SpecPaging: lists of up to MaxFlights snapshots of two flights
PagingCatalog == {FlightUA, FlightLH}

PagingLists == UNION {[1..n -> PagingCatalog] : n \in 0..MaxFlights}

\* flightsPerPage arguments: a misconfigured one, and page sizes the lists exceed
PageSizes == {0, 1, 2}

\* the Error strings the board is given: none, and the message of a failed fetch
ErrorMessages == {"", "API request failed"}

-----------------------------------------------------------------------------
(* The board under its callers *)

\* no bubbletea model, no goroutines: the board, field or sort stands alone
NoApp == [none |-> TRUE]

NoConc == [none |-> TRUE]

\* a call, its argument and what it returned, with the page position and the
\* row list of the board it was made on
Call(op, arg, ret) ==
    [op |-> op, arg |-> arg, ret |-> ret, cp |-> board.CurrentPage,
     tp |-> board.TotalPages, flights |-> board.Flights]

NoCall(op) ==
    [op |-> op, arg |-> <<>>, ret |-> <<>>, cp |-> 0, tp |-> 1, flights |-> <<>>]

NoField == NewAnimatedText(0)

InitBoard(codes, sizes) ==
    /\ \E code \in codes, n \in sizes :
          board = NewBoard(code, GetAirportTimezone(code), n)
    /\ rows = [r \in RowRefs |-> Nil]
    /\ now = 0
    /\ last = NoCall("NewBoard")
    /\ nUpdates = 0
    /\ at = NoField
    /\ sortIn = <<>>
    /\ sortOut = <<>>
    /\ app = NoApp
    /\ conc = NoConc

Init == InitBoard({"LHR"}, {ConfiguredFlightsPerPage})

UpdateFlights(flights) ==
    /\ nUpdates < MaxUpdates
    /\ LET res == UpdateFlightsResult(board, rows, flights, now)
       IN  /\ board' = res.board
           /\ rows' = res.rows
    /\ nUpdates' = nUpdates + 1
    /\ last' = Call("UpdateFlights", flights, <<>>)
    /\ UNCHANGED <<now, at, sortIn, sortOut, app, conc>>

NextPage ==
    /\ board' = NextPageResult(board)
    /\ last' = Call("NextPage", <<>>, <<>>)
    /\ UNCHANGED <<rows, now, nUpdates, at, sortIn, sortOut, app, conc>>

Tick ==
    /\ rows' = TickRows(board.Flights, 1, rows, now)
    /\ last' = Call("Tick", <<>>, <<>>)
    /\ UNCHANGED <<board, now, nUpdates, at, sortIn, sortOut, app, conc>>

SetAirport(code) ==
    /\ board' = SetAirportResult(board, code, GetAirportTimezone(code))
    /\ last' = Call("SetAirport", code, <<>>)
    /\ UNCHANGED <<rows, now, nUpdates, at, sortIn, sortOut, app, conc>>

\* the owner of the board writes its Error field: the message of a failed
\* fetch, or "" to clear it
SetError(msg) ==
    /\ board' = [board EXCEPT !.Error = msg]
    /\ last' = Call("SetError", msg, <<>>)
    /\ UNCHANGED <<rows, now, nUpdates, at, sortIn, sortOut, app, conc>>

SetFlightsPerPage(n) ==
    /\ board' = SetFlightsPerPageResult(board, n)
    /\ last' = Call("SetFlightsPerPage", n, <<>>)
    /\ UNCHANGED <<rows, now, nUpdates, at, sortIn, sortOut, app, conc>>

CurrentPageFlights ==
    /\ last' = Call("GetCurrentPageFlights", <<>>, GetCurrentPageFlights(board))
    /\ UNCHANGED <<board, rows, now, nUpdates, at, sortIn, sortOut, app, conc>>

\* time passes: the clock advances by step, up to limit
AdvanceBy(step, limit) ==
    /\ now + step <= limit
    /\ now' = now + step
    /\ UNCHANGED <<board, rows, last, nUpdates, at, sortIn, sortOut, app, conc>>

Advance == AdvanceBy(ClockStep, MaxClock * ClockStep)

Next ==
    \/ \E flights \in FetchLists : UpdateFlights(flights)
    \/ NextPage
    \/ Tick
    \/ \E code \in Airports : SetAirport(code)
    \/ Advance

\* the board with its rows and their animations, the page size as main sets it
Spec == Init /\ [][Next]_vars

InitPaging == InitBoard({"LHR"}, PageSizes)

NextPaging ==
    \/ \E flights \in PagingLists : UpdateFlights(flights)
    \/ NextPage
    \/ Tick
    \/ \E code \in Airports : SetAirport(code)
    \/ \E msg \in ErrorMessages : SetError(msg)
    \/ \E n \in PageSizes : SetFlightsPerPage(n)
    \/ CurrentPageFlights

\* the board under any page size, at one instant of the clock
SpecPaging == InitPaging /\ [][NextPaging]_vars

-----------------------------------------------------------------------------
(* One AnimatedText under its callers *)

\* Update arguments: texts over a letter and the space, shorter than, as long as
\* and longer than the field
FieldTexts == UNION {[1..n -> {"A", " "}] : n \in 0..(MaxWidth + 1)}

InitField ==
    /\ \E w \in 1..MaxWidth : at = NewAnimatedText(w)
    /\ board = NewBoard("LHR", GetAirportTimezone("LHR"), ConfiguredFlightsPerPage)
    /\ rows = [r \in RowRefs |-> Nil]
    /\ now = 0
    /\ last = NoCall("NewAnimatedText")
    /\ nUpdates = 0
    /\ sortIn = <<>>
    /\ sortOut = <<>>
    /\ app = NoApp
    /\ conc = NoConc

FieldUpdate(text) ==
    /\ at' = AnimatedTextUpdate(at, text, now)
    /\ last' = Call("Update", text, <<>>)
    /\ UNCHANGED <<board, rows, now, nUpdates, sortIn, sortOut, app, conc>>

FieldTick ==
    /\ at' = AnimatedTextTick(at, now)
    /\ last' = Call("Tick", <<>>, <<>>)
    /\ UNCHANGED <<board, rows, now, nUpdates, sortIn, sortOut, app, conc>>

FieldRender ==
    /\ last' = Call("Render", <<>>, AnimatedTextRender(at))
    /\ UNCHANGED <<board, rows, now, nUpdates, at, sortIn, sortOut, app, conc>>

FieldAdvance == AdvanceBy(BlinkPhaseMs, MaxFieldClock * BlinkPhaseMs)

NextField ==
    \/ \E text \in FieldTexts : FieldUpdate(text)
    \/ FieldTick
    \/ FieldRender
    \/ FieldAdvance

SpecField == InitField /\ [][NextField]_vars

-----------------------------------------------------------------------------
(* sort.Slice on the snapshots of one fetch *)

\* the i-th record of a response, scheduled at minute t
SortFlight(i, t) ==
    [FlightUA EXCEPT !.FlightNumber = <<"X", Digit(i \div 10), Digit(i % 10)>>,
                     !.ScheduledDeparture = AtUTC(t)]

\* the responses of n records at two scheduled times
SortInputs(n) ==
    {[i \in 1..n |-> SortFlight(i, times[i])] : times \in [1..n -> {540, 600}]}

\* responses of up to 3, of 12 and of 13 records
SortLengths == {0, 1, 2, 3, 12, 13}

InitSort ==
    /\ \E n \in SortLengths : sortIn \in SortInputs(n)
    /\ sortOut = <<>>
    /\ last = NoCall("fetch")
    /\ board = NewBoard("LHR", GetAirportTimezone("LHR"), ConfiguredFlightsPerPage)
    /\ rows = [r \in RowRefs |-> Nil]
    /\ now = 0
    /\ nUpdates = 0
    /\ at = NoField
    /\ app = NoApp
    /\ conc = NoConc

SortCall ==
    /\ last.op = "fetch"
    /\ sortOut' = SortSlice(sortIn)
    /\ last' = Call("sort.Slice", <<>>, <<>>)
    /\ UNCHANGED <<board, rows, now, nUpdates, at, sortIn, app, conc>>

NextSort == SortCall

SpecSort == InitSort /\ [][NextSort]_vars

-----------------------------------------------------------------------------
(* Board.Render *)

\* fmt's %d of a number that is not negative
RECURSIVE Itoa(_)
Itoa(n) == IF n < 10 THEN Digit(n) ELSE Itoa(n \div 10) \o Digit(n % 10)

\* a section of the frame: the string handed to a style's Render, and the
\* lines the styled string takes (its margins included)
Section(style, text, lines) == [style |-> style, text |-> text, lines |-> lines]

\* Styles.AirportLabel has MarginBottom(1)
renderAirportHeader(b) == Section("AirportLabel", "DEPARTURES - " \o b.AirportCode, 2)

\* the six column titles, padded to the widths of the fields
renderHeader ==
    Section("Header",
            "S FLIGHT   TIME     DESTINATION          GATE   REMARKS             ", 1)

\* "" when there is one page; Styles.PageInfo has MarginTop(1)
renderPageInfo(b) ==
    IF b.TotalPages <= 1
    THEN Section("", "", 1)
    ELSE LET totalFlights == Len(b.Flights)
             flightsPerPage == IF b.FlightsPerPage <= 0
                               THEN DefaultFlightsPerPage ELSE b.FlightsPerPage
             start == b.CurrentPage * flightsPerPage + 1
             end == IF (b.CurrentPage + 1) * flightsPerPage > totalFlights
                    THEN totalFlights ELSE (b.CurrentPage + 1) * flightsPerPage
         IN  Section("PageInfo",
                     "Page " \o Itoa(b.CurrentPage + 1) \o "/" \o Itoa(b.TotalPages) \o
                     " (" \o Itoa(start) \o "-" \o Itoa(end) \o " of " \o
                     Itoa(totalFlights) \o ")", 2)

\* the row of an entry of the page
PageRow(entry, heap) == IF entry = Filler THEN NewFlightRow(Nil, 0) ELSE heap[entry.ref]

\* Board.Render: the sections handed to lipgloss.JoinVertical, top to bottom
BoardRender(b, heap) ==
    LET page == GetCurrentPageFlights(b)
    IN  <<renderAirportHeader(b)>> \o
        (IF b.Error # "" THEN <<Section("Error", "ERROR: " \o b.Error, 1)>> ELSE <<>>) \o
        <<renderHeader>> \o
        [i \in 1..Len(page) |-> Section("Row", FlightRowRender(PageRow(page[i], heap)), 1)] \o
        <<renderPageInfo(b)>>

-----------------------------------------------------------------------------
(* Lists that repeat a flight number (specification SpecDup) *)

\* the cancelled flight once more under the same number, two hours later
FlightLHLate == [FlightLH EXCEPT !.ScheduledDeparture = AtUTC(660)]

DupCatalog == {FlightLH, FlightUA, FlightLHLate}

DupLists == UNION {[1..n -> DupCatalog] : n \in 0..MaxFlights}

NextDup ==
    \/ \E flights \in DupLists : UpdateFlights(flights)
    \/ \E code \in Airports : SetAirport(code)
    \/ NextPage
    \/ Tick

\* the board under lists in which a flight number occurs at two scheduled times
SpecDup == Init /\ [][NextDup]_vars

-----------------------------------------------------------------------------
(* main.go: the bubbletea model and its Update (specification SpecApp) *)

\* fetches in flight at one time
MaxFetches == 2

\* the keys pressed: the two commands, the letter keys among them, and the
\* keys of the input prompt; "1" is a key that is no letter
Keys == {"q", "ctrl+c", "a", "enter", "esc", "backspace", "1"}

\* strings.ToUpper of a key string
ToUpper(keyStr) ==
    CASE keyStr = "a" -> "A"
      [] keyStr = "q" -> "Q"
      [] OTHER -> keyStr

\* a faulty test that takes every key for a letter
IsLetterKeyAny(keyStr) == TRUE

\* len(keyStr) == 1 and the rune is a letter
IsLetterKey(keyStr) == keyStr \in {"a", "q", "A", "Q"}

\* r < 'A' || r > 'Z' fails for no rune of newCode
ValidCode(newCode) == \A i \in 1..Len(newCode) : newCode[i] \in {"A", "Q"}

\* the three runes of a code as one string
CodeString(newCode) == newCode[1] \o newCode[2] \o newCode[3]

\* a fetchFlights command in flight: the airport code its closure captured;
\* stale records that the result of a fetch issued after it was already handled
Fetch(airportCode) == [code |-> airportCode, stale |-> FALSE]

\* the tea.Tick timers pending, by kind
OneTimerEach == [api |-> 1, page |-> 1, anim |-> 1]

\* a faulty tick case that returns no tea.Tick command
RearmDropped(timers, kind) == timers

\* the tea.Tick command a tick case returns: one more timer of its kind
Rearm(timers, kind) == [timers EXCEPT ![kind] = @ + 1]

\* the timer whose message is being handled is no longer pending
Fired(timers, kind) == [timers EXCEPT ![kind] = @ - 1]

\* initialModel, and the commands of Init(): the first fetch and one timer of
\* each kind; rowsOf records the airport the rows on the board were fetched for
initialModel(airportCode) ==
    [airportCode |-> airportCode, loading |-> TRUE, err |-> Nil,
     inputMode |-> FALSE, airportInput |-> <<>>,
     fetches |-> <<Fetch(airportCode)>>, quit |-> FALSE,
     rowsOf |-> "", timers |-> OneTimerEach]

\* case tea.KeyMsg: the model, the board and the command returned
HandleKey(m, b, key) ==
    IF m.inputMode
    THEN CASE key = "enter" ->
                LET newCode == m.airportInput
                IN  IF Len(newCode) = 3 /\ ValidCode(newCode)
                    THEN [m |-> [m EXCEPT !.airportCode = CodeString(newCode),
                                          !.airportInput = <<>>,
                                          !.inputMode = FALSE,
                                          !.loading = TRUE],
                          board |-> SetFlightsPerPageResult(
                                       SetAirportResult([b EXCEPT !.Error = ""],
                                                        CodeString(newCode),
                                                        GetAirportTimezone(CodeString(newCode))),
                                       ConfiguredFlightsPerPage),
                          cmd |-> "fetchFlights"]
                    ELSE [m |-> [m EXCEPT !.airportInput = <<>>, !.inputMode = FALSE],
                          board |-> b, cmd |-> "nil"]
           [] key = "esc" ->
                [m |-> [m EXCEPT !.airportInput = <<>>, !.inputMode = FALSE],
                 board |-> b, cmd |-> "nil"]
           [] key = "backspace" ->
                [m |-> IF Len(m.airportInput) > 0
                       THEN [m EXCEPT !.airportInput = Prefix(@, Len(@) - 1)]
                       ELSE m,
                 board |-> b, cmd |-> "nil"]
           [] OTHER ->
                [m |-> IF Len(m.airportInput) < 3 /\ IsLetterKey(key)
                       THEN [m EXCEPT !.airportInput = Append(@, ToUpper(key))]
                       ELSE m,
                 board |-> b, cmd |-> "nil"]
    ELSE CASE key \in {"ctrl+c", "q"} -> [m |-> m, board |-> b, cmd |-> "tea.Quit"]
           [] key = "a" ->
                [m |-> [m EXCEPT !.inputMode = TRUE, !.airportInput = <<>>],
                 board |-> b, cmd |-> "nil"]
           [] OTHER -> [m |-> m, board |-> b, cmd |-> "nil"]

\* a flightsMsg: the flights of a fetch, or its error
FlightsMsgOk(flights) == [flights |-> flights, err |-> Nil]

FlightsMsgErr(text) == [flights |-> <<>>, err |-> [msg |-> text]]

\* a faulty flightsMsg case that empties the board when the fetch failed
HandleFlightsMsgClears(m, b, heap, msg, t) ==
    IF msg.err # Nil
    THEN [m |-> [m EXCEPT !.loading = FALSE, !.err = msg.err],
          board |-> [b EXCEPT !.Error = msg.err.msg, !.Flights = <<>>,
                              !.CurrentPage = 0, !.TotalPages = 1],
          rows |-> [r \in RowRefs |-> Nil]]
    ELSE LET res == UpdateFlightsResult([b EXCEPT !.Error = ""], heap, msg.flights, t)
         IN  [m |-> [m EXCEPT !.loading = FALSE], board |-> res.board, rows |-> res.rows]

\* case flightsMsg: the model, the board and the rows afterwards
HandleFlightsMsg(m, b, heap, msg, t) ==
    IF msg.err # Nil
    THEN [m |-> [m EXCEPT !.loading = FALSE, !.err = msg.err],
          board |-> [b EXCEPT !.Error = msg.err.msg],
          rows |-> heap]
    ELSE LET res == UpdateFlightsResult([b EXCEPT !.Error = ""], heap, msg.flights, t)
         IN  [m |-> [m EXCEPT !.loading = FALSE], board |-> res.board, rows |-> res.rows]

\* what the fetches of the model return
AppLists == {<<>>, <<FlightUA>>, <<FlightLH, FlightUA>>}

AppMessages ==
    {FlightsMsgOk(flights) : flights \in AppLists} \cup {FlightsMsgErr("API request failed")}

\* a sequence without its i-th element
Without(seq, i) == SubSeq(seq, 1, i - 1) \o SubSeq(seq, i + 1, Len(seq))

\* the fetches in flight once the i-th has returned: those issued before it
\* have been overtaken
Overtaken(fetches, i) ==
    Without([j \in 1..Len(fetches) |->
                IF j < i THEN [fetches[j] EXCEPT !.stale = TRUE] ELSE fetches[j]], i)

InitApp ==
    /\ board = NewBoard("LHR", GetAirportTimezone("LHR"), ConfiguredFlightsPerPage)
    /\ app = initialModel("LHR")
    /\ rows = [r \in RowRefs |-> Nil]
    /\ now = 0
    /\ last = NoCall("initialModel")
    /\ nUpdates = 0
    /\ at = NoField
    /\ sortIn = <<>>
    /\ sortOut = <<>>
    /\ conc = NoConc

\* a key press reaches Update; tea.Quit ends the program
KeyMsg(key) ==
    /\ ~app.quit
    /\ LET res == HandleKey(app, board, key)
       IN  /\ res.cmd = "fetchFlights" => Len(app.fetches) < MaxFetches
           /\ app' = [res.m EXCEPT !.quit = (res.cmd = "tea.Quit"),
                                   !.fetches = IF res.cmd = "fetchFlights"
                                               THEN Append(@, Fetch(res.m.airportCode))
                                               ELSE @]
           /\ board' = res.board
           /\ last' = Call("KeyMsg", key, res.cmd)
    /\ UNCHANGED <<rows, now, nUpdates, at, sortIn, sortOut, conc>>

\* the i-th fetch in flight returns and its flightsMsg reaches Update
FlightsMsg(i, msg) ==
    /\ ~app.quit
    /\ i \in 1..Len(app.fetches)
    /\ msg.err = Nil => nUpdates < MaxUpdates
    /\ LET res == HandleFlightsMsg(app, board, rows, msg, now)
       IN  /\ app' = [res.m EXCEPT !.fetches = Overtaken(@, i),
                                   !.rowsOf = IF msg.err = Nil
                                              THEN app.fetches[i].code ELSE @]
           /\ board' = res.board
           /\ rows' = res.rows
    /\ nUpdates' = IF msg.err = Nil THEN nUpdates + 1 ELSE nUpdates
    /\ last' = Call("flightsMsg", msg,
                    [code |-> app.fetches[i].code, stale |-> app.fetches[i].stale,
                     error |-> board.Error, rowsOf |-> app.rowsOf])
    /\ UNCHANGED <<now, at, sortIn, sortOut, conc>>

\* case tickAPIMsg: a fetch for the airport of the model starts
TickAPIMsg ==
    /\ ~app.quit
    /\ app.timers.api > 0
    /\ Len(app.fetches) < MaxFetches
    /\ app' = [app EXCEPT !.fetches = Append(@, Fetch(app.airportCode)),
                          !.timers = Rearm(Fired(@, "api"), "api")]
    /\ last' = Call("tickAPIMsg", <<>>, "fetchFlights")
    /\ UNCHANGED <<board, rows, now, nUpdates, at, sortIn, sortOut, conc>>

\* case tickPageRotationMsg
TickPageRotationMsg ==
    /\ ~app.quit
    /\ app.timers.page > 0
    /\ board' = NextPageResult(board)
    /\ app' = [app EXCEPT !.timers = Rearm(Fired(@, "page"), "page")]
    /\ last' = Call("tickPageRotationMsg", <<>>, <<>>)
    /\ UNCHANGED <<rows, now, nUpdates, at, sortIn, sortOut, conc>>

\* case tickAnimationMsg
TickAnimationMsg ==
    /\ ~app.quit
    /\ app.timers.anim > 0
    /\ rows' = TickRows(board.Flights, 1, rows, now)
    /\ app' = [app EXCEPT !.timers = Rearm(Fired(@, "anim"), "anim")]
    /\ last' = Call("tickAnimationMsg", <<>>, <<>>)
    /\ UNCHANGED <<board, now, nUpdates, at, sortIn, sortOut, conc>>

\* model.View: the prompt over the board, the loading text, or the board over
\* the help line
ViewResult(m, b, heap) ==
    IF m.inputMode
    THEN [prompt |-> m.airportInput, frame |-> BoardRender(b, heap), help |-> FALSE,
          text |-> "Enter airport code (3 letters): _"]
    ELSE IF m.loading /\ Len(b.Flights) = 0
    THEN [prompt |-> <<>>, frame |-> <<>>, help |-> FALSE, text |-> "Loading flights..."]
    ELSE [prompt |-> <<>>, frame |-> BoardRender(b, heap), help |-> TRUE,
          text |-> "Press 'a' to change airport | 'q' to quit"]

\* bubbletea draws the model
View ==
    /\ ~app.quit
    /\ last' = Call("View", <<>>, ViewResult(app, board, rows))
    /\ UNCHANGED <<board, rows, now, nUpdates, at, sortIn, sortOut, app, conc>>

\* the keys that change the airport
AirportKeys == {"a", "enter", "esc"}

NextApp ==
    \/ \E key \in AirportKeys : KeyMsg(key)
    \/ \E i \in 1..MaxFetches, msg \in AppMessages : FlightsMsg(i, msg)
    \/ TickAPIMsg
    \/ TickPageRotationMsg
    \/ TickAnimationMsg
    \/ View
    \/ AdvanceBy(2 * ClockStep, 2 * ClockStep)

\* the program: fetch results and the three timers in any order, and the user
\* changing the airport
SpecApp == InitApp /\ [][NextApp]_vars

\* what the fetches return while the keys are looked at
KeyMessages == {FlightsMsgOk(<<>>), FlightsMsgErr("API request failed")}

NextKeys ==
    \/ \E key \in Keys : KeyMsg(key)
    \/ \E msg \in KeyMessages : FlightsMsg(1, msg)

\* the program under every key, its fetches returning in the order they started
SpecKeys == InitApp /\ [][NextKeys]_vars

-----------------------------------------------------------------------------
(* One FlightRow under concurrent callers (specification SpecLock) *)

\* goroutines calling into the row
NProcs == 2
\* calls all goroutines start in one behaviour
MaxCalls == 2
\* cells of a field of the contended row: min(width of NewFlightRow, LockWidth);
\* the loops over the cells are the same for every width
LockWidth == 1

Goroutines == 1..NProcs

\* the fields in the order FlightRow.Update, Tick and Render visit them
FieldOrder ==
    <<"StatusAnim", "FlightNumAnim", "TimeAnim", "DestinationAnim", "GateAnim",
      "RemarksAnim">>

\* the texts FlightRow.Update hands to the Update of each field
FieldArgs(flight) ==
    [StatusAnim |-> getStatusChar(flight.Status),
     FlightNumAnim |-> truncate(flight.FlightNumber, FlightNumWidth),
     TimeAnim |-> Format1504(flight.ScheduledDeparture),
     DestinationAnim |-> truncate(GetDestination(flight), DestinationWidth),
     GateAnim |-> GateText(flight),
     RemarksAnim |-> truncate(flight.Remarks, RemarksWidth)]

\* the row before its first Update, its fields cut to LockWidth cells
CutRow ==
    [Flight |-> Nil,
     StatusAnim |-> NewAnimatedText(Min(StatusWidth, LockWidth)),
     FlightNumAnim |-> NewAnimatedText(Min(FlightNumWidth, LockWidth)),
     TimeAnim |-> NewAnimatedText(Min(TimeWidth, LockWidth)),
     DestinationAnim |-> NewAnimatedText(Min(DestinationWidth, LockWidth)),
     GateAnim |-> NewAnimatedText(Min(GateWidth, LockWidth)),
     RemarksAnim |-> NewAnimatedText(Min(RemarksWidth, LockWidth))]

\* the snapshots the callers of Update pass
LockFlights == {FlightBA, FlightUA}

\* a faulty Lock that never waits
MutexNeverWaits(owner) == TRUE

\* sync.Mutex.Lock returns once the mutex is unlocked (owner 0: unlocked)
MutexFree(owner) == owner = 0

\* char.mu.Unlock()
UnlockCell(cmu, name, i) == [cmu EXCEPT ![name][i] = 0]

\* a faulty early return of IsAnimating that leaves the cell locked
EarlyReturnLocked(cmu, name, i) == cmu

\* char.mu.Unlock() before "return true" in IsAnimating
EarlyReturnUnlock(cmu, name, i) == UnlockCell(cmu, name, i)

\* a goroutine outside any call; inside a call: the method (op), the position in
\* it (pc), the field (f) and cell (i) it is at, and its locals: arg, oldText,
\* newText of Update; flight, line (result of AnimatedText.Render) and result
\* (the rendered fields) of Render; ret of IsAnimating.  shown records the text
\* each field held when Render locked it.
IdleProc ==
    [op |-> "", pc |-> "idle", f |-> 0, i |-> 0, arg |-> Nil, oldText |-> <<>>,
     newText |-> <<>>, flight |-> Nil, line |-> <<>>, result |-> <<>>,
     shown |-> <<>>, ret |-> FALSE]

InitLock ==
    /\ board = NewBoard("LHR", GetAirportTimezone("LHR"), ConfiguredFlightsPerPage)
    /\ rows = [r \in RowRefs |-> Nil]
    /\ now = 0
    /\ last = NoCall("NewFlightRow")
    /\ nUpdates = 0
    /\ at = NoField
    /\ sortIn = <<>>
    /\ sortOut = <<>>
    /\ app = NoApp
    /\ conc = [row |-> FlightRowUpdate(CutRow, FlightBA, 0),
               mu |-> [name \in FieldNames |-> 0],
               cmu |-> [name \in FieldNames |->
                           [i \in 1..CutRow[name].MaxLength |-> 0]],
               proc |-> [p \in Goroutines |-> IdleProc],
               calls |-> 0]

NoBoardStep == UNCHANGED <<board, rows, now, last, nUpdates, at, sortIn, sortOut, app>>

\* the field goroutine p is at
FieldAt(p) == FieldOrder[conc.proc[p].f]

\* a goroutine calls a method of the row, or IsAnimating of its k-th field
StartCall(p, op, pc, arg, k) ==
    /\ conc.proc[p].pc = "idle"
    /\ conc.calls < MaxCalls
    /\ conc' = [conc EXCEPT !.calls = @ + 1,
                            !.proc[p] = [IdleProc EXCEPT !.op = op, !.pc = pc,
                                                         !.arg = arg, !.f = k]]
    /\ NoBoardStep

StartUpdate(p, flight) == StartCall(p, "Update", "setFlight", flight, 0)

StartTick(p) == StartCall(p, "Tick", "lock", Nil, 1)

StartRender(p) == StartCall(p, "Render", "checkFlight", Nil, 0)

StartIsAnimating(p, k) == StartCall(p, "IsAnimating", "lock", Nil, k)

\* fr.Flight = flight
SetFlight(p) ==
    /\ conc.proc[p].pc = "setFlight"
    /\ conc' = [conc EXCEPT !.row.Flight = conc.proc[p].arg,
                            !.proc[p].f = 1, !.proc[p].pc = "lock"]
    /\ NoBoardStep

\* if fr.Flight == nil { return styles.Text.Render(68 spaces) }
CheckFlight(p) ==
    /\ conc.proc[p].pc = "checkFlight"
    /\ conc' = IF conc.row.Flight = Nil
               THEN [conc EXCEPT !.proc[p].result = <<Spaces(68)>>,
                                 !.proc[p].pc = "idle"]
               ELSE [conc EXCEPT !.proc[p].pc = "readFlight"]
    /\ NoBoardStep

\* statusColor := fr.Flight.GetStatusColor()
ReadFlight(p) ==
    /\ conc.proc[p].pc = "readFlight"
    /\ conc' = [conc EXCEPT !.proc[p].flight = conc.row.Flight,
                            !.proc[p].f = 1, !.proc[p].pc = "lock"]
    /\ NoBoardStep

\* at.mu.Lock() of Update, Tick, Render and IsAnimating
LockField(p) ==
    /\ conc.proc[p].pc = "lock"
    /\ MutexFree(conc.mu[FieldAt(p)])
    /\ LET me == conc.proc[p]
           a == conc.row[FieldAt(p)]
       IN  conc' = [conc EXCEPT
                      !.mu[FieldAt(p)] = p,
                      !.proc[p] =
                         [me EXCEPT !.pc = IF me.op = "Update" THEN "head"
                                           ELSE IF a.MaxLength = 0 THEN "unlock"
                                           ELSE "cell",
                                    !.i = 1,
                                    !.line = <<>>,
                                    !.shown = IF me.op = "Render"
                                              THEN Append(@, a.NewText) ELSE @]]
    /\ NoBoardStep

\* Update up to its loop: newText and oldText padded, at.NewText = newText
UpdateHead(p) ==
    /\ conc.proc[p].pc = "head"
    /\ LET me == conc.proc[p]
           a == conc.row[FieldAt(p)]
           newText == PadOrTruncate(FieldArgs(me.arg)[FieldAt(p)], a.MaxLength)
       IN  conc' = [conc EXCEPT
                      !.row[FieldAt(p)].NewText = newText,
                      !.proc[p].newText = newText,
                      !.proc[p].oldText = PadOrTruncate(a.OldText, a.MaxLength),
                      !.proc[p].pc = IF a.MaxLength = 0 THEN "tail" ELSE "cell"]
    /\ NoBoardStep

\* one round of the loop of Update: at.Chars[i] is written, no cell lock taken
UpdateCell(p) ==
    /\ conc.proc[p].op = "Update"
    /\ conc.proc[p].pc = "cell"
    /\ LET me == conc.proc[p]
           a == conc.row[FieldAt(p)]
       IN  conc' = [conc EXCEPT
                      !.row[FieldAt(p)].Chars[me.i] =
                         UpdateChar(@, me.oldText[me.i], me.newText[me.i], now),
                      !.proc[p].i = IF me.i < a.MaxLength THEN me.i + 1 ELSE me.i,
                      !.proc[p].pc = IF me.i < a.MaxLength THEN "cell" ELSE "tail"]
    /\ NoBoardStep

\* at.OldText = newText
UpdateTail(p) ==
    /\ conc.proc[p].pc = "tail"
    /\ conc' = [conc EXCEPT !.row[FieldAt(p)].OldText = conc.proc[p].newText,
                            !.proc[p].pc = "unlock"]
    /\ NoBoardStep

\* the position after the cell a goroutine is at: the next cell, or the end of the loop
AfterCell(me, a) ==
    [me EXCEPT !.i = IF me.i < a.MaxLength THEN me.i + 1 ELSE me.i,
               !.pc = IF me.i < a.MaxLength THEN "cell" ELSE "unlock"]

\* the head of one round of the loops of Tick, Render and IsAnimating: a nil
\* cell is passed over, any other is locked (char.mu.Lock())
LockCell(p) ==
    /\ conc.proc[p].op \in {"Tick", "Render", "IsAnimating"}
    /\ conc.proc[p].pc = "cell"
    /\ LET me == conc.proc[p]
           a == conc.row[FieldAt(p)]
       IN  IF a.Chars[me.i] = Nil
           THEN conc' = [conc EXCEPT
                           !.proc[p] =
                              AfterCell([me EXCEPT !.line = IF me.op = "Render"
                                                            THEN Append(@, " ")
                                                            ELSE @], a)]
           ELSE /\ MutexFree(conc.cmu[FieldAt(p)][me.i])
                /\ conc' = [conc EXCEPT !.cmu[FieldAt(p)][me.i] = p,
                                        !.proc[p].pc = "inCell"]
    /\ NoBoardStep

\* what Tick, Render and IsAnimating do to a cell they have locked
InCell(p) ==
    /\ conc.proc[p].pc = "inCell"
    /\ LET me == conc.proc[p]
           cell == conc.row[FieldAt(p)].Chars[me.i]
       IN  conc' =
             CASE me.op = "Tick" ->
                    [conc EXCEPT !.row[FieldAt(p)].Chars[me.i] = TickChar(cell, now),
                                 !.proc[p].pc = "unlockCell"]
               [] me.op = "Render" ->
                    [conc EXCEPT !.proc[p].line = Append(@, RenderChar(cell)),
                                 !.proc[p].pc = "unlockCell"]
               [] OTHER ->
                    [conc EXCEPT !.proc[p].pc = IF cell.State = "Blinking"
                                                THEN "returnTrue"
                                                ELSE "unlockCell"]
    /\ NoBoardStep

\* char.mu.Unlock() at the end of a round
UnlockCellStep(p) ==
    /\ conc.proc[p].pc = "unlockCell"
    /\ LET me == conc.proc[p]
       IN  conc' = [conc EXCEPT
                      !.cmu = UnlockCell(@, FieldAt(p), me.i),
                      !.proc[p] = AfterCell(me, conc.row[FieldAt(p)])]
    /\ NoBoardStep

\* IsAnimating on a Blinking cell: char.mu.Unlock(); return true
ReturnTrue(p) ==
    /\ conc.proc[p].pc = "returnTrue"
    /\ conc' = [conc EXCEPT
                  !.cmu = EarlyReturnUnlock(@, FieldAt(p), conc.proc[p].i),
                  !.proc[p].ret = TRUE,
                  !.proc[p].pc = "unlock"]
    /\ NoBoardStep

\* the deferred at.mu.Unlock(); FlightRow.Update, Tick and Render go on to the
\* next field and return after the last, IsAnimating returns
UnlockField(p) ==
    /\ conc.proc[p].pc = "unlock"
    /\ LET me == conc.proc[p]
           more == me.op # "IsAnimating" /\ me.f < Len(FieldOrder)
       IN  conc' = [conc EXCEPT
                      !.mu[FieldAt(p)] = 0,
                      !.proc[p] =
                         [me EXCEPT !.result = IF me.op = "Render"
                                               THEN Append(@, me.line) ELSE @,
                                    !.f = IF more THEN me.f + 1 ELSE me.f,
                                    !.pc = IF more THEN "lock" ELSE "idle"]]
    /\ NoBoardStep

\* a step of goroutine p inside a call
Step(p) ==
    \/ SetFlight(p)
    \/ CheckFlight(p)
    \/ ReadFlight(p)
    \/ LockField(p)
    \/ UpdateHead(p)
    \/ UpdateCell(p)
    \/ UpdateTail(p)
    \/ LockCell(p)
    \/ InCell(p)
    \/ UnlockCellStep(p)
    \/ ReturnTrue(p)
    \/ UnlockField(p)

NextLock ==
    \/ \E p \in Goroutines, flight \in LockFlights : StartUpdate(p, flight)
    \/ \E p \in Goroutines : StartTick(p)
    \/ \E p \in Goroutines : StartRender(p)
    \/ \E p \in Goroutines, k \in 1..Len(FieldOrder) : StartIsAnimating(p, k)
    \/ \E p \in Goroutines : Step(p)
    \/ AdvanceBy(2 * ClockStep, 2 * ClockStep)

\* the row under any interleaving of its callers' steps
SpecLock == InitLock /\ [][NextLock]_vars

\* the goroutines are scheduled, and a waiting Lock gets the mutex once it stays
\* unlocked
SpecLockFair == SpecLock /\ \A p \in Goroutines : WF_vars(Step(p))

-----------------------------------------------------------------------------
(* Pagination: C3, C4, C9, C10 (SpecPaging) *)

CeilDiv(n, d) == (n + d - 1) \div d

\* the page size in effect: FlightsPerPage, or 10 when it is not positive
EffectivePageSize == IF board.FlightsPerPage <= 0 THEN 10 ELSE board.FlightsPerPage

\* TotalPages = max(1, ceil(rowCount / P))
ExpectedTotalPages == Max(1, CeilDiv(Len(board.Flights), EffectivePageSize))

\* C3: after any sequence of NewBoard, UpdateFlights, NextPage, SetAirport,
\* SetFlightsPerPage and Tick calls, 0 <= CurrentPage < TotalPages and
\* TotalPages = max(1, ceil(rowCount / P)) for the page size P in effect.
C3_PaginationInvariant ==
    /\ 0 <= board.CurrentPage
    /\ board.CurrentPage < board.TotalPages
    /\ board.TotalPages = ExpectedTotalPages

\* what of C3 the code keeps: the invariant can only be broken by a
\* SetFlightsPerPage call, and UpdateFlights and NextPage restore it
C3_BrokenOnlyBySetFlightsPerPage ==
    [][/\ (C3_PaginationInvariant /\ ~C3_PaginationInvariant')
            => last'.op = "SetFlightsPerPage"
       /\ last'.op \in {"UpdateFlights", "NextPage"} /\ last' # last
            => C3_PaginationInvariant']_vars

\* C4: in every reachable board state GetCurrentPageFlights returns exactly P
\* entries: the rows at indices [CurrentPage*P, min(CurrentPage*P + P, rowCount))
\* of the row list in their order, then filler rows without a snapshot; and the
\* call changes no board state.
C4_PageOf(b, page) ==
    LET P == IF b.FlightsPerPage <= 0 THEN 10 ELSE b.FlightsPerPage
        lo == b.CurrentPage * P
        hi == Min(lo + P, Len(b.Flights))
    IN  /\ Len(page) = P
        /\ \A i \in 1..P :
              IF lo + i <= hi
              THEN page[i] = [ref |-> b.Flights[lo + i]]
              ELSE page[i] = Filler /\ NewFlightRow(Nil, now).Flight = Nil

C4_CurrentPageExact ==
    [][last'.op = "GetCurrentPageFlights" /\ now' = now
          => /\ C4_PageOf(board, last'.ret)
             /\ board' = board
             /\ rows' = rows]_vars

\* C4 happened: a call returned the last page of three rows, two to a page:
\* the third row and one filler
C4_Witness ==
    /\ last.op = "GetCurrentPageFlights"
    /\ Len(board.Flights) = 3
    /\ board.FlightsPerPage = 2
    /\ board.CurrentPage = 1
    /\ last.ret = <<[ref |-> board.Flights[3]], Filler>>

\* TotalPages and CurrentPage were up to date with the row list and the page
\* size when the last call was made (the call changed neither of the two)
PaginationWasCurrent ==
    /\ last.tp = ExpectedTotalPages
    /\ 0 <= last.cp
    /\ last.cp < last.tp

RECURSIVE NextPageTimes(_, _)
NextPageTimes(b, n) == IF n = 0 THEN b ELSE NextPageTimes(NextPageResult(b), n - 1)

\* C9: with the row list and the page size unchanged (TotalPages is the one
\* they give), NextPage moves CurrentPage to (CurrentPage + 1) mod TotalPages,
\* and TotalPages calls of NextPage bring CurrentPage back to where it was.
C9_NextPageCycles ==
    /\ (last.op = "NextPage" /\ PaginationWasCurrent)
          => /\ board.CurrentPage = (last.cp + 1) % last.tp
             /\ board.TotalPages = last.tp
    /\ C3_PaginationInvariant
          => NextPageTimes(board, board.TotalPages).CurrentPage = board.CurrentPage

\* C9 happened: three rows, two to a page, and NextPage went from page 1 to 0
C9_Witness ==
    /\ last.op = "NextPage"
    /\ PaginationWasCurrent
    /\ Len(board.Flights) = 3
    /\ board.FlightsPerPage = 2
    /\ last.cp = 1
    /\ board.CurrentPage = 0

\* C10: when UpdateFlights leaves the previous CurrentPage >= the new
\* TotalPages, CurrentPage becomes TotalPages - 1; otherwise UpdateFlights
\* leaves CurrentPage unchanged. TotalPages is recomputed by the call.
C10_UpdateClampsPage ==
    last.op = "UpdateFlights"
       => /\ board.TotalPages = ExpectedTotalPages
          /\ IF last.cp >= board.TotalPages
             THEN board.CurrentPage = board.TotalPages - 1
             ELSE board.CurrentPage = last.cp

\* C10 happened: the list shrank below the page shown, and the board shows the
\* last page, which is not page 0
C10_Witness ==
    /\ last.op = "UpdateFlights"
    /\ last.cp >= board.TotalPages
    /\ board.CurrentPage = board.TotalPages - 1
    /\ board.CurrentPage > 0

-----------------------------------------------------------------------------
(* Field width: C6 (SpecField) *)

CellStates(a) == {a.Chars[i].State : i \in {j \in 1..Len(a.Chars) : a.Chars[j] # Nil}}

\* C6: Render of an AnimatedText of width W returns exactly W characters, for
\* texts shorter than, equal to and longer than W and any mix of cell states,
\* also before the first Update.
C6_RenderHasWidth ==
    /\ Len(AnimatedTextRender(at)) = at.MaxLength
    /\ last.op = "Render" => Len(last.ret) = at.MaxLength

\* C6 happened: Render was called on a field whose text was cut to its width
\* and whose cells are part Blinking, part Complete
C6_Witness ==
    /\ last.op = "Render"
    /\ Len(at.NewText) = at.MaxLength
    /\ at.MaxLength = MaxWidth
    /\ {"Blinking", "Complete"} \subseteq CellStates(at)

\* C6 happened before the first Update too
C6_WitnessFresh ==
    /\ last.op = "Render"
    /\ at.Chars = [i \in 1..at.MaxLength |-> Nil]

-----------------------------------------------------------------------------
(* Order of the rows: C7 (SpecSort) *)

\* the place of a record in the response
InputIndex(f) == CHOOSE k \in 1..Len(sortIn) : sortIn[k] = f

\* C7: UpdateFlights sorts the entries ascending by scheduled departure time
\* and entries with equal scheduled times keep their input order.
C7_SortIsStable ==
    last.op = "sort.Slice"
       => /\ Len(sortOut) = Len(sortIn)
          /\ Range(sortOut) = Range(sortIn)
          /\ \A i, j \in 1..Len(sortOut) :
                i < j =>
                  /\ ~Before(sortOut[j].ScheduledDeparture, sortOut[i].ScheduledDeparture)
                  /\ sortOut[i].ScheduledDeparture.t = sortOut[j].ScheduledDeparture.t
                        => InputIndex(sortOut[i]) < InputIndex(sortOut[j])

\* what of C7 the code does: the order is ascending for every length, and
\* equal times keep their input order in responses of at most 12 records
C7_AscendingAndStableUpTo12 ==
    last.op = "sort.Slice"
       => /\ Len(sortOut) = Len(sortIn)
          /\ Range(sortOut) = Range(sortIn)
          /\ \A i, j \in 1..Len(sortOut) :
                i < j =>
                  /\ ~Before(sortOut[j].ScheduledDeparture, sortOut[i].ScheduledDeparture)
                  /\ (/\ Len(sortIn) <= 12
                      /\ sortOut[i].ScheduledDeparture.t = sortOut[j].ScheduledDeparture.t)
                        => InputIndex(sortOut[i]) < InputIndex(sortOut[j])

\* twelve records at 10:00 followed by one at 09:00
TwelveThenEarlier == [i \in 1..13 |-> SortFlight(i, IF i = 13 THEN 540 ELSE 600)]

\* the order sort.Slice leaves them in
C7_TwelveThenEarlierOrder ==
    (last.op = "sort.Slice" /\ sortIn = TwelveThenEarlier)
       => [i \in 1..13 |-> InputIndex(sortOut[i])] = <<13, 7, 3, 4, 5, 6, 1, 8, 9, 10, 11, 12, 2>>

-----------------------------------------------------------------------------
(* Reconciliation and animation: C1, C2, C5, C8 (Spec) *)

\* a step of UpdateFlights
UpdateStep == nUpdates' = nUpdates + 1

\* a step of the board's Tick
TickStep == last'.op = "Tick" /\ now' = now /\ nUpdates' = nUpdates

\* the places of the row list that hold a row for flight number K
RowsFor(K) ==
    {i \in 1..Len(board.Flights) : rows[board.Flights[i]].Flight.FlightNumber = K}

\* the places of a fetched list that hold a snapshot for flight number K
EntriesFor(list, K) == {i \in 1..Len(list) : list[i].FlightNumber = K}

\* a text as a field of width w shows it
Shown(text, w) == [p \in 1..w |-> IF p <= Len(text) THEN text[p] ELSE " "]

\* the orders of a fetched list that are ascending by scheduled departure
SortedOrders(list) ==
    {pi \in [1..Len(list) -> 1..Len(list)] :
        /\ \A i, j \in 1..Len(list) : i # j => pi[i] # pi[j]
        /\ \A i, j \in 1..Len(list) :
              i < j => list[pi[i]].ScheduledDeparture.t <= list[pi[j]].ScheduledDeparture.t}

\* C1: the board holds a row for flight number K and UpdateFlights is called
\* with a list whose entry for K differs from the row's snapshot only in its
\* gate: the same row object is kept, no cell of the status, flight number,
\* time, destination and remarks fields changes (none is newly Blinking), and
\* the cells of the gate field are set Blinking exactly at the positions where
\* the old and the new width-6 gate texts differ.
C1_GateOnlyChange ==
    [][UpdateStep =>
         \A i \in 1..Len(board.Flights) :
            LET r    == board.Flights[i]
                old  == rows[r].Flight
                K    == old.FlightNumber
                list == last'.arg
                e    == ConvertFlight(list[CHOOSE j \in EntriesFor(list, K) : TRUE],
                                      board.AirportTZ)
                oldGate == Shown(old.Gate, GateWidth)
                newGate == Shown(e.Gate, GateWidth)
            IN  (/\ RowsFor(K) = {i}
                 /\ Cardinality(EntriesFor(list, K)) = 1
                 /\ [e EXCEPT !.Gate = old.Gate] = old)
                => /\ Cardinality({j \in 1..Len(board'.Flights) : board'.Flights[j] = r}) = 1
                   /\ rows'[r] # Nil
                   /\ rows'[r].Flight = e
                   /\ \A f \in FieldNames \ {"GateAnim"} : rows'[r][f].Chars = rows[r][f].Chars
                   /\ \A p \in 1..GateWidth :
                         IF oldGate[p] # newGate[p]
                         THEN /\ rows'[r].GateAnim.Chars[p].State = "Blinking"
                              /\ rows'[r].GateAnim.Chars[p].StartTime = now
                              /\ rows'[r].GateAnim.Chars[p].BlinkPhase = 0
                              /\ rows'[r].GateAnim.Chars[p].NewChar = newGate[p]
                         ELSE rows'[r].GateAnim.Chars[p] = rows[r].GateAnim.Chars[p]]_vars

\* C1 happened: gate A1 of a settled row became A22, and of all the cells of
\* the row the second and the third of the gate field blink
C1_Witness ==
    /\ last.op = "UpdateFlights"
    /\ last.arg = <<FlightBAGate>>
    /\ last.flights = board.Flights
    /\ now > 0
    /\ LET row == rows[board.Flights[1]]
       IN  /\ \A f \in FieldNames \ {"GateAnim"} : ~IsAnimating(row[f])
           /\ {p \in 1..GateWidth : row.GateAnim.Chars[p].State = "Blinking"} = {2, 3}
           /\ row.GateAnim.Chars[2].StartTime = now
           /\ row.GateAnim.NewText = Shown(<<"A", "2", "2">>, GateWidth)

\* C2: after UpdateFlights the row list has one entry per snapshot, in sorted
\* order; an entry whose flight number matched an existing row is that same
\* row object, an entry whose flight number was not on the board is a newly
\* created row, and no row whose flight number is absent from the snapshots
\* remains.
C2_Reconciled ==
    [][UpdateStep =>
         LET list == last'.arg
             oldRefs == Range(board.Flights)
         IN  /\ Len(board'.Flights) = Len(list)
             /\ \E pi \in SortedOrders(list) :
                   \A i \in 1..Len(list) :
                      LET K == list[pi[i]].FlightNumber
                          r == board'.Flights[i]
                      IN  /\ rows'[r] # Nil
                          /\ rows'[r].Flight.FlightNumber = K
                          /\ IF RowsFor(K) # {}
                             THEN r \in {board.Flights[k] : k \in RowsFor(K)}
                             ELSE /\ r \notin oldRefs
                                  /\ rows[r] = Nil
                                  /\ \A j \in 1..Len(list) : j # i => board'.Flights[j] # r
             /\ \A i \in 1..Len(board'.Flights) :
                   EntriesFor(list, rows'[board'.Flights[i]].Flight.FlightNumber) # {}
             /\ \A r \in RowRefs : rows'[r] # Nil => r \in Range(board'.Flights)]_vars

\* C2 happened: of two rows one was kept and one dropped, and a new row came
C2_Witness ==
    /\ last.op = "UpdateFlights"
    /\ Len(last.flights) = 2
    /\ Len(board.Flights) = 2
    /\ Cardinality(Range(board.Flights) \cap Range(last.flights)) = 1
    /\ Cardinality(Range(board.Flights) \ Range(last.flights)) = 1
    /\ Cardinality(Range(last.flights) \ Range(board.Flights)) = 1

\* the cells of a field that blink
BlinkingCells(a) ==
    {p \in 1..a.MaxLength : a.Chars[p] # Nil /\ a.Chars[p].State = "Blinking"}

\* C5: a cell set Blinking by an Update is, after a board Tick that runs more
\* than 300 ms after that Update, not Blinking and Render shows the new
\* character; a field all of whose Blinking cells are that old is not
\* animating after the Tick; and a cell that is not Blinking becomes Blinking
\* only by an UpdateFlights whose Update changes its character. This holds for the
\* rows on the visible page and for the others.
C5_BlinkSettles ==
    [][/\ TickStep =>
            \A i \in 1..Len(board.Flights) : \A f \in FieldNames :
               LET a    == rows[board.Flights[i]][f]
                   a2   == rows'[board.Flights[i]][f]
                   done == {p \in BlinkingCells(a) : now - a.Chars[p].StartTime > 300}
               IN  /\ \A p \in done :
                         /\ a2.Chars[p].State # "Blinking"
                         /\ AnimatedTextRender(a2)[p] = a.NewText[p]
                         /\ a2.NewText[p] = a.NewText[p]
                   /\ done = BlinkingCells(a) => ~IsAnimating(a2)
       /\ \A r \in RowRefs : \A f \in FieldNames :
             (rows[r] # Nil /\ rows'[r] # Nil) =>
                \A p \in BlinkingCells(rows'[r][f]) \ BlinkingCells(rows[r][f]) :
                   /\ UpdateStep
                   /\ rows'[r][f].Chars[p].NewChar # rows'[r][f].Chars[p].OldChar
                   /\ rows'[r][f].Chars[p].StartTime = now]_vars

\* C5 happened: a Tick later than 300 ms completed a cell of a row that is
\* not on the visible page
C5_Witness ==
    /\ last.op = "Tick"
    /\ \E i \in 1..Len(board.Flights) :
          /\ i \notin (board.CurrentPage * PageSize(board) + 1)..
                      ((board.CurrentPage + 1) * PageSize(board))
          /\ \E f \in FieldNames : \E p \in 1..rows[board.Flights[i]][f].MaxLength :
                LET c == rows[board.Flights[i]][f].Chars[p]
                IN  /\ c.State = "Complete"
                    /\ now - c.StartTime > 300
                    /\ AnimatedTextRender(rows[board.Flights[i]][f])[p] = c.NewChar

\* the remarks of a delayed snapshot: "Delayed EST: HH:MM" in the board's zone
DelayedRemarks(s) ==
    <<"D", "e", "l", "a", "y", "e", "d", " ", "E", "S", "T", ":", " ">> \o
    Format1504([t |-> s.EstimatedDeparture.t, loc |-> board.AirportTZ])

\* the row at place i of the list shows the remarks of snapshot s
ShowsDelayed(i, s) ==
    /\ rows[board.Flights[i]].Flight.Remarks = DelayedRemarks(s)
    /\ rows[board.Flights[i]].RemarksAnim.NewText = Shown(DelayedRemarks(s), RemarksWidth)

\* C8: after UpdateFlights the row of every snapshot whose status is Delayed
\* and that has an estimated departure has the remarks text
\* "Delayed EST: HH:MM", HH:MM the estimated time in the board's time zone.
C8_DelayedRemarks ==
    last.op = "UpdateFlights" =>
       \E pi \in SortedOrders(last.arg) :
          \A i \in 1..Len(last.arg) :
             LET s == last.arg[pi[i]]
             IN  (s.Status = "Delayed" /\ s.EstimatedDeparture # Nil) => ShowsDelayed(i, s)

\* what of C8 the code does: the remarks are as stated when no two snapshots
\* of the list have the same flight number
C8_DelayedRemarksDistinctKeys ==
    (/\ last.op = "UpdateFlights"
     /\ \A i \in 1..Len(last.arg) : EntriesFor(last.arg, last.arg[i].FlightNumber) = {i})
       => \E pi \in SortedOrders(last.arg) :
             \A i \in 1..Len(last.arg) :
                LET s == last.arg[pi[i]]
                IN  (s.Status = "Delayed" /\ s.EstimatedDeparture # Nil) => ShowsDelayed(i, s)

\* a delayed snapshot is shown in the zone of Frankfurt
C8_DelayedShownInBerlin ==
    /\ last.op = "UpdateFlights"
    /\ last.arg = <<FlightBADelayed>>
    /\ board.AirportTZ = Berlin
    /\ ShowsDelayed(1, FlightBADelayed)

-----------------------------------------------------------------------------
(* SetAirport: C11 (SpecPaging) *)

\* C11: SetAirport(code, tz) sets AirportCode and AirportTZ to its arguments
\* and CurrentPage to 0, and leaves the row list, every row's snapshot and
\* animation state, TotalPages, FlightsPerPage and Error unchanged.
C11_SetAirportFrame ==
    [][(last'.op = "SetAirport" /\ now' = now) =>
          /\ board'.AirportCode = last'.arg
          /\ board'.AirportTZ = GetAirportTimezone(last'.arg)
          /\ board'.CurrentPage = 0
          /\ board'.Flights = board.Flights
          /\ rows' = rows
          /\ board'.TotalPages = board.TotalPages
          /\ board'.FlightsPerPage = board.FlightsPerPage
          /\ board'.Error = board.Error]_vars

\* C11 happened: SetAirport moved a board with rows, an error and a later
\* page shown from London to Frankfurt
C11_Witness ==
    /\ last.op = "SetAirport"
    /\ last.arg = "FRA"
    /\ board.AirportCode = "FRA"
    /\ board.AirportTZ = Berlin
    /\ last.cp > 0
    /\ board.CurrentPage = 0
    /\ board.TotalPages = last.tp
    /\ board.TotalPages > 1
    /\ board.Error # ""
    /\ \E i \in 1..Len(board.Flights) :
          rows[board.Flights[i]].Flight.ScheduledDeparture.loc = London

-----------------------------------------------------------------------------
(* A failed fetch: C12 (SpecApp) *)

\* a step of Update for the message named
MsgStep(op) == last'.op = op /\ now' = now

\* C12: when a fetch result carrying an error is delivered, the board's Error
\* is that error's message and the row list, every row, CurrentPage and
\* TotalPages are unchanged; page-rotation ticks and animation ticks then move
\* the page and the cells as they do without an error: the page to
\* (CurrentPage + 1) mod TotalPages, the cells as Board.Tick moves them.
C12_ErrorKeepsBoard ==
    [][/\ (MsgStep("flightsMsg") /\ last'.arg.err # Nil) =>
             /\ board'.Error = last'.arg.err.msg
             /\ board' = [board EXCEPT !.Error = last'.arg.err.msg]
             /\ rows' = rows
       /\ MsgStep("tickPageRotationMsg") =>
             /\ board'.CurrentPage = (board.CurrentPage + 1) % board.TotalPages
             /\ board' = [board EXCEPT !.CurrentPage = board'.CurrentPage]
             /\ rows' = rows
       /\ MsgStep("tickAnimationMsg") =>
             /\ board' = board
             /\ \A r \in RowRefs : \A f \in FieldNames :
                   rows[r] # Nil =>
                      \A p \in 1..rows[r][f].MaxLength :
                         LET c == rows[r][f].Chars[p]
                             d == rows'[r][f].Chars[p]
                         IN  d.State =
                                CASE c.State = "Blinking" /\ now - c.StartTime > 300 -> "Complete"
                                  [] c.State = "Blinking" -> "Blinking"
                                  [] OTHER -> "Stable"]_vars

\* C12 happened: with the error banner set and two rows kept, a page-rotation
\* tick moved the page and an animation tick completed a cell
C12_Witness ==
    /\ last.op = "tickAnimationMsg"
    /\ board.Error = "API request failed"
    /\ app.err # Nil
    /\ Len(board.Flights) = 2
    /\ board.CurrentPage = 1
    /\ \E p \in 1..FlightNumWidth :
          /\ rows[board.Flights[2]].FlightNumAnim.Chars[p].State = "Complete"
          /\ now - rows[board.Flights[2]].FlightNumAnim.Chars[p].StartTime > 300

-----------------------------------------------------------------------------
(* Quitting: C19 (SpecKeys) *)

\* C19: in every reachable UI state, also while the airport-code input prompt
\* is open, the key handler answers q and ctrl+c with the quit command.
C19_QuitKeysQuit ==
    (last.op = "KeyMsg" /\ last.arg \in {"q", "ctrl+c"}) =>
       /\ last.ret = "tea.Quit"
       /\ app.quit

\* what of C19 the code does: outside the input prompt both keys quit; in the
\* prompt q is typed into the airport code (when it has room) and ctrl+c does
\* nothing, and neither quits
C19_QuitKeysOutsidePrompt ==
    [][(MsgStep("KeyMsg") /\ last'.arg \in {"q", "ctrl+c"}) =>
          IF ~app.inputMode
          THEN last'.ret = "tea.Quit" /\ app'.quit
          ELSE /\ last'.ret = "nil"
               /\ ~app'.quit
               /\ app'.inputMode
               /\ app'.airportInput =
                     IF last'.arg = "q" /\ Len(app.airportInput) < 3
                     THEN Append(app.airportInput, "Q")
                     ELSE app.airportInput]_vars

\* ctrl+c was pressed in the input prompt and the program runs on
C19_CtrlCInPrompt ==
    /\ last.op = "KeyMsg"
    /\ last.arg = "ctrl+c"
    /\ app.inputMode
    /\ ~app.quit

-----------------------------------------------------------------------------
(* Order and identity of the rows: C13, C20 (SpecDup) *)

\* the scheduled departure of the snapshot of the row at place i
ScheduledAt(i) == rows[board.Flights[i]].Flight.ScheduledDeparture

\* C13: in every reachable board state the row list is sorted ascending by
\* the scheduled departure time of each row's current snapshot.
C13_RowsSorted ==
    \A i, j \in 1..Len(board.Flights) : i < j => ~Before(ScheduledAt(j), ScheduledAt(i))

\* the flight numbers of a list are pairwise different
DistinctKeys(list) == \A i \in 1..Len(list) : EntriesFor(list, list[i].FlightNumber) = {i}

\* what of C13 the code does: the rows are sorted after an UpdateFlights whose
\* list has no flight number twice, and stay so until the next UpdateFlights
C13_RowsSortedDistinctKeys ==
    [][/\ (UpdateStep /\ DistinctKeys(last'.arg)) => C13_RowsSorted'
       /\ (~UpdateStep /\ C13_RowsSorted) => C13_RowsSorted']_vars

\* the row at place i holds snapshot s and displays it
HoldsAndDisplays(i, s) ==
    LET row == rows[board.Flights[i]]
    IN  /\ row.Flight = s
        /\ row.StatusAnim.NewText = Shown(getStatusChar(s.Status), StatusWidth)
        /\ row.FlightNumAnim.NewText = Shown(s.FlightNumber, FlightNumWidth)
        /\ row.TimeAnim.NewText = Shown(Format1504(s.ScheduledDeparture), TimeWidth)
        /\ row.DestinationAnim.NewText = Shown(GetDestination(s), DestinationWidth)
        /\ row.GateAnim.NewText = Shown(s.Gate, GateWidth)
        /\ row.RemarksAnim.NewText = Shown(s.Remarks, RemarksWidth)

\* the rows are the snapshots of the list, in one of its ascending orders
RowsAreSnapshots ==
    /\ Len(board.Flights) = Len(last.arg)
    /\ \A i, j \in 1..Len(board.Flights) : i # j => board.Flights[i] # board.Flights[j]
    /\ \E pi \in SortedOrders(last.arg) :
          \A i \in 1..Len(last.arg) :
             HoldsAndDisplays(i, ConvertFlight(last.arg[pi[i]], board.AirportTZ))

\* C20: after UpdateFlights with any snapshot list, also one in which two
\* snapshots carry the same flight number, the rows of the board are pairwise
\* distinct row objects and the i-th row holds and displays the data of the
\* i-th sorted snapshot.
C20_RowsAreSnapshots == last.op = "UpdateFlights" => RowsAreSnapshots

\* what of C20 the code does: so it is when no row of the board has the flight
\* number that the list repeats
C20_RowsAreSnapshotsNoRepeatOnBoard ==
    [][(/\ UpdateStep
        /\ \A i \in 1..Len(last'.arg) :
              \/ EntriesFor(last'.arg, last'.arg[i].FlightNumber) = {i}
              \/ RowsFor(last'.arg[i].FlightNumber) = {})
          => RowsAreSnapshots']_vars

\* a list that repeats a flight number met a board without it: two new rows
C20_RepeatOnEmptyBoard ==
    /\ last.op = "UpdateFlights"
    /\ last.flights = <<>>
    /\ last.arg = <<FlightLHLate, FlightLH>>
    /\ RowsAreSnapshots

-----------------------------------------------------------------------------
(* The frame: C17, C18 (SpecApp) *)

\* the styles of the sections of a frame, top to bottom
FrameStyles(frame) == [i \in 1..Len(frame) |-> frame[i].style]

\* airport header, error banner if Error is set, column header, the rows of
\* the page
SectionsAboveIndicator ==
    <<"AirportLabel">> \o
    (IF board.Error # "" THEN <<"Error">> ELSE <<>>) \o
    <<"Header">> \o
    [i \in 1..EffectivePageSize |-> "Row"]

\* C17: the frame of Board.Render is, top to bottom, the airport header, an
\* error banner if and only if Error is not empty, the column header, the rows
\* of the current page and the page indicator; with TotalPages <= 1 no section
\* and no line is emitted for the indicator after the last row.
C17_FrameSections ==
    FrameStyles(BoardRender(board, rows)) =
       SectionsAboveIndicator \o (IF board.TotalPages <= 1 THEN <<>> ELSE <<"PageInfo">>)

\* what of C17 the code does: the sections are in that order, and with
\* TotalPages <= 1 the frame ends in an empty section that takes one line
C17_FrameSectionsWithEmptyLast ==
    LET frame == BoardRender(board, rows)
        final == frame[Len(frame)]
    IN  /\ FrameStyles(frame) =
              SectionsAboveIndicator \o
              (IF board.TotalPages <= 1 THEN <<"">> ELSE <<"PageInfo">>)
        /\ board.TotalPages <= 1 => final.text = "" /\ final.lines = 1
        /\ \A i \in 1..EffectivePageSize :
              frame[Len(frame) - 1 - EffectivePageSize + i].text =
                 FlightRowRender(PageRow(GetCurrentPageFlights(board)[i], rows))

\* a frame with the error banner and one page was drawn
C17_OnePageDrawn ==
    /\ last.op = "View"
    /\ board.Error # ""
    /\ Len(board.Flights) = 1
    /\ board.TotalPages = 1
    /\ FrameStyles(last.ret.frame) = <<"AirportLabel", "Error", "Header", "Row", "">>

\* the places of the single spaces between the six fields
Separators ==
    {StatusWidth + 1,
     StatusWidth + FlightNumWidth + 2,
     StatusWidth + FlightNumWidth + TimeWidth + 3,
     StatusWidth + FlightNumWidth + TimeWidth + DestinationWidth + 4,
     StatusWidth + FlightNumWidth + TimeWidth + DestinationWidth + GateWidth + 5}

\* a rendered row: 68 characters; with a snapshot the six fields of widths 1,
\* 8, 8, 20, 6, 20 with single spaces between them, without one 68 blanks
RowIs68(row) ==
    LET text == FlightRowRender(row)
    IN  /\ Len(text) = 68
        /\ IF row.Flight = Nil
           THEN \A p \in 1..68 : text[p] = " "
           ELSE /\ \A p \in Separators : text[p] = " "
                /\ SubSeq(text, 1, 1) = AnimatedTextRender(row.StatusAnim)
                /\ SubSeq(text, 3, 10) = AnimatedTextRender(row.FlightNumAnim)
                /\ SubSeq(text, 12, 19) = AnimatedTextRender(row.TimeAnim)
                /\ SubSeq(text, 21, 40) = AnimatedTextRender(row.DestinationAnim)
                /\ SubSeq(text, 42, 47) = AnimatedTextRender(row.GateAnim)
                /\ SubSeq(text, 49, 68) = AnimatedTextRender(row.RemarksAnim)
                /\ \A f \in FieldNames : Len(AnimatedTextRender(row[f])) = row[f].MaxLength

\* C18: every rendered row is 68 characters wide: a row with a snapshot
\* renders its six fields of widths 1, 8, 8, 20, 6 and 20 joined by single
\* spaces, whatever the lengths of the snapshot's flight number, destination,
\* gate and remarks, and a filler row renders 68 blanks.
C18_RowsAre68Wide ==
    /\ \A r \in RowRefs : rows[r] # Nil => RowIs68(rows[r])
    /\ RowIs68(NewFlightRow(Nil, now))
    /\ (last.op = "View" /\ last.ret.frame # <<>>) =>
          \A i \in 1..Len(last.ret.frame) :
             last.ret.frame[i].style = "Row" => Len(last.ret.frame[i].text) = 68

\* C18 happened: a frame was drawn whose row has a flight number, a
\* destination and a gate longer than their fields and cells that blink or not,
\* while another row of the board has no gate
C18_Witness ==
    /\ last.op = "View"
    /\ last.ret.frame # <<>>
    /\ Len(board.Flights) = 2
    /\ LET row == rows[board.Flights[board.CurrentPage + 1]]
       IN  /\ Len(row.Flight.FlightNumber) > FlightNumWidth
           /\ Len(GetDestination(row.Flight)) > DestinationWidth
           /\ Len(row.Flight.Gate) > GateWidth
           /\ {"Blinking", "Stable"} \subseteq CellStates(row.DestinationAnim)
    /\ \E i \in 1..2 : rows[board.Flights[i]].Flight.Gate = <<>>

-----------------------------------------------------------------------------
(* The row under concurrent callers: C14, C15, C16 (SpecLock, SpecLockFair) *)

\* a Render of goroutine p has returned
RenderReturned(p) == conc.proc[p].op = "Render" /\ conc.proc[p].pc = "idle"

\* the text field k of the row holds once all of Update(flight) is applied
FieldTextOf(flight, k) ==
    PadOrTruncate(FieldArgs(flight)[FieldOrder[k]], CutRow[FieldOrder[k]].MaxLength)

\* the Render of p read the pointer and every field in the state of one snapshot
SawOneSnapshot(p) ==
    \E flight \in LockFlights :
        /\ conc.proc[p].flight = flight
        /\ \A k \in 1..Len(FieldOrder) : conc.proc[p].shown[k] = FieldTextOf(flight, k)

\* C14: under any interleaving of ticks, updates and renders, a Render of the
\* row never observes a partially applied FlightRow.Update: the snapshot pointer
\* and the six fields it reads all reflect one and the same snapshot.
C14_RenderSeesWholeUpdates ==
    \A p \in Goroutines : RenderReturned(p) => SawOneSnapshot(p)

\* a Render has returned a row whose pointer is of one snapshot and whose flight
\* number is of the other
C14_TornRender ==
    \E p \in Goroutines :
        /\ RenderReturned(p)
        /\ conc.proc[p].flight = FlightBA
        /\ conc.proc[p].shown[2] = FieldTextOf(FlightUA, 2)

\* the positions between at.mu.Lock() and the deferred at.mu.Unlock()
CriticalPcs == {"head", "cell", "tail", "inCell", "unlockCell", "returnTrue", "unlock"}

\* the positions whose next step reads or writes at.Chars[i] or the cell's state
CellAccessPcs == {"cell", "inCell"}

InCritical(p, name) ==
    /\ conc.proc[p].pc \in CriticalPcs
    /\ FieldAt(p) = name

HeldFields(p) == {name \in FieldNames : conc.mu[name] = p}

HeldCells(p) ==
    {c \in FieldNames \X (1..LockWidth) :
        c[2] \in DOMAIN conc.cmu[c[1]] /\ conc.cmu[c[1]][c[2]] = p}

\* C15: for one AnimatedText at most one of Update, Tick, Render and
\* IsAnimating is inside its critical section at any time; every read or write
\* of a cell's state happens while the field's lock is held by the caller; and a
\* cell lock is only acquired, and only held, while the field's lock is held by
\* the same caller, never the other way round.
C15_FieldLockIsOuter ==
    /\ \A name \in FieldNames :
          Cardinality({p \in Goroutines : InCritical(p, name)}) <= 1
    /\ \A p \in Goroutines :
          conc.proc[p].pc \in CellAccessPcs => conc.mu[FieldAt(p)] = p
    /\ \A p \in Goroutines :
          \A c \in HeldCells(p) : conc.mu[c[1]] = p
    /\ \A p \in Goroutines :
          conc.proc[p].pc = "lock" => HeldCells(p) = {}

\* one caller is inside a field with a cell locked while a caller of another
\* method waits for the field's lock
C15_Witness ==
    \E p, q \in Goroutines :
        /\ p # q
        /\ conc.proc[p].pc = "inCell"
        /\ conc.proc[q].pc = "lock"
        /\ FieldAt(q) = FieldAt(p)
        /\ conc.proc[q].op = "Update"
        /\ conc.proc[p].op \in {"Tick", "Render", "IsAnimating"}

LocksReleased ==
    \A p \in Goroutines :
        /\ Cardinality(HeldFields(p)) <= 1
        /\ conc.proc[p].pc = "idle" => HeldFields(p) = {} /\ HeldCells(p) = {}

\* C16: under any interleaving of concurrent Update, Tick, Render and
\* IsAnimating calls no caller holds more than one field's lock at a time, every
\* lock a call acquired is released when it returns (the early return of
\* IsAnimating included), and every call eventually returns.
C16_CallsReturnUnlocked ==
    /\ []LocksReleased
    /\ \A p \in Goroutines : (conc.proc[p].pc # "idle") ~> (conc.proc[p].pc = "idle")

\* every call has returned, one of them an IsAnimating that returned true from
\* inside its loop, the other goroutine having updated the row
C16_Witness ==
    /\ conc.calls = MaxCalls
    /\ \A p \in Goroutines : conc.proc[p].pc = "idle"
    /\ \E p, q \in Goroutines :
          /\ conc.proc[p].op = "IsAnimating"
          /\ conc.proc[p].ret
          /\ conc.proc[q].op = "Update"

-----------------------------------------------------------------------------
(* Fetches in flight and timers: C21, C22, C23, C24, C27 (SpecApp) *)

\* a flightsMsg without error was handled last: its flights were handed to
\* UpdateFlights
SnapshotApplied == last.op = "flightsMsg" /\ last.arg.err = Nil

\* C21: UpdateFlights is only applied with a snapshot fetched for the board's
\* current airport code; the result of a fetch for a previous airport that
\* arrives after the airport was changed is not turned into rows.
C21_SnapshotOfCurrentAirport ==
    SnapshotApplied => last.ret.code = board.AirportCode

\* the flights fetched for LHR have become the rows of the board of AAA
C21_OtherAirportApplied ==
    /\ SnapshotApplied
    /\ last.ret.code = "LHR"
    /\ board.AirportCode = "AAA"
    /\ Len(board.Flights) = 2
    /\ last.flights = <<>>

\* C22: the result of a fetch that was issued before a fetch whose result was
\* already handled does not overwrite the rows or the error state.
C22_OvertakenResultChangesNothing ==
    (last.op = "flightsMsg" /\ last.ret.stale) =>
        /\ board.Flights = last.flights
        /\ board.Error = last.ret.error

\* the overtaken result of the first fetch replaced the rows of the second
C22_OlderRowsOverNewer ==
    /\ last.op = "flightsMsg"
    /\ last.ret.stale
    /\ last.arg.err = Nil
    /\ Len(last.flights) = 2
    /\ Len(board.Flights) = 1

\* the first snapshot fetched for the airport the user changed to was handled
\* last: before it the board held the rows of another airport
FirstSnapshotOfNewAirport ==
    /\ SnapshotApplied
    /\ last.ret.code = board.AirportCode
    /\ board.AirportCode # "LHR"
    /\ last.ret.rowsOf # board.AirportCode

\* C23: when the first snapshot fetched for the new airport is applied,
\* CurrentPage is 0, whatever ticks were handled since the airport change.
C23_NewAirportStartsAtPageOne ==
    FirstSnapshotOfNewAirport => last.cp = 0 /\ board.CurrentPage = 0

\* the first snapshot of the new airport is shown from its second page
C23_NewAirportAtPageTwo ==
    /\ FirstSnapshotOfNewAirport
    /\ last.cp = 1
    /\ board.CurrentPage = 1
    /\ board.TotalPages = 2

\* C24: whenever the board holds rows, they were fetched for the airport named
\* in its header; no frame shows the rows of a previous airport under the new
\* header.
C24_RowsOfHeaderAirport ==
    (last.op = "View" /\ last.ret.frame # <<>> /\ Len(board.Flights) > 0) =>
        app.rowsOf = board.AirportCode

\* a frame with the header of AAA over the rows fetched for LHR, the fetch for
\* AAA having failed
C24_OldRowsAfterFailedFetch ==
    /\ last.op = "View"
    /\ last.ret.frame # <<>>
    /\ last.ret.frame[1].text = "DEPARTURES - AAA"
    /\ Len(board.Flights) > 0
    /\ app.rowsOf = "LHR"
    /\ board.Error # ""
    /\ app.fetches = <<>>

\* C27: between the handling of two messages exactly one timer of each kind is
\* pending, whatever keys, fetch results and ticks were handled, the airport
\* prompt open or not.
C27_OneTimerOfEachKind ==
    ~app.quit => app.timers = OneTimerEach

\* C27 happened: a tick was handled while the prompt was open, after an
\* airport change and a fetch result
C27_Witness ==
    /\ last.op \in {"tickAPIMsg", "tickPageRotationMsg", "tickAnimationMsg"}
    /\ app.inputMode
    /\ Len(app.airportInput) = 2
    /\ app.airportCode = "AAA"
    /\ app.rowsOf # ""
    /\ app.timers = OneTimerEach

-----------------------------------------------------------------------------
(* The page indicator: C29 (SpecPaging) *)

\* "Page X/Y (s-e of n)"
PageInfoText(x, y, s, e, n) ==
    "Page " \o Itoa(x) \o "/" \o Itoa(y) \o " (" \o Itoa(s) \o "-" \o Itoa(e) \o
    " of " \o Itoa(n) \o ")"

\* the indicator of the board reads Page X/Y (s-e of n) for numbers in order
PageInfoInOrder ==
    LET n == Len(board.Flights)
        x == board.CurrentPage + 1
        y == board.TotalPages
        s == board.CurrentPage * EffectivePageSize + 1
        e == Min((board.CurrentPage + 1) * EffectivePageSize, n)
    IN  /\ renderPageInfo(board).text = PageInfoText(x, y, s, e, n)
        /\ 1 <= x /\ x <= y
        /\ 1 <= s /\ s <= e /\ e <= n

\* C29: whenever the page indicator is shown (TotalPages > 1) it reads
\* Page X/Y (s-e of n) with 1 <= X <= Y = TotalPages and 1 <= s <= e <= n =
\* rowCount, s = CurrentPage*P + 1 and e = min((CurrentPage+1)*P, n), in every
\* board state reachable through UpdateFlights, NextPage, SetAirport and
\* SetFlightsPerPage.
C29_PageInfoInOrder ==
    board.TotalPages > 1 => PageInfoInOrder

\* what of C29 the code keeps: the indicator is in order whenever TotalPages
\* is the page count of the page size in effect
C29_InOrderWhenPaginationCurrent ==
    (board.TotalPages > 1 /\ C3_PaginationInvariant) => PageInfoInOrder

\* the indicator reads Page 3/3 (5-3 of 3)
C29_StartPastEnd ==
    /\ last.op = "SetFlightsPerPage"
    /\ renderPageInfo(board).text = "Page 3/3 (5-3 of 3)"

-----------------------------------------------------------------------------
(* The cells of one field: C25, C26, C30 (SpecField) *)

\* a call of the method named on the field
FieldStep(op) == last'.op = op /\ now' = now

\* Update changes the character at position p: the text of the call differs
\* there from the text of the call before, both padded or cut to the width
CharChanges(p) ==
    PadOrTruncate(at.OldText, at.MaxLength)[p] # PadOrTruncate(last'.arg, at.MaxLength)[p]

\* C25: a cell's state changes only so: an Update that changes its character
\* makes it Blinking with phase 0 and a fresh start time, whatever it was; a
\* Tick completes a Blinking cell only when more than 300 ms have passed since
\* its start and leaves it Blinking otherwise, makes a Complete cell Stable and
\* leaves a Stable cell alone; no Tick takes a cell from Blinking to Stable.
C25_CellTransitions ==
    [][\A p \in 1..at.MaxLength :
          LET c == at.Chars[p]
              d == at'.Chars[p]
          IN  /\ FieldStep("Update") =>
                    IF CharChanges(p)
                    THEN d.State = "Blinking" /\ d.BlinkPhase = 0 /\ d.StartTime = now
                    ELSE IF c = Nil THEN d.State = "Stable" ELSE d.State = c.State
              /\ FieldStep("Tick") =>
                    IF c = Nil THEN d = Nil
                    ELSE /\ c.State = "Blinking" =>
                               d.State = IF now - c.StartTime > 300
                                         THEN "Complete" ELSE "Blinking"
                         /\ c.State = "Complete" => d.State = "Stable"
                         /\ c.State = "Stable" => d = c
              /\ ~(FieldStep("Update") \/ FieldStep("Tick")) => d = c]_vars

\* C25 happened: one Tick completed a cell 400 ms after its start and left
\* Blinking a cell exactly 300 ms after its start
C25_Witness ==
    /\ last.op = "Tick"
    /\ at.MaxLength = 2
    /\ at.Chars[1] # Nil /\ at.Chars[2] # Nil
    /\ \E p, q \in 1..2 :
          /\ at.Chars[p].State = "Complete" /\ now - at.Chars[p].StartTime = 400
          /\ at.Chars[q].State = "Blinking" /\ now - at.Chars[q].StartTime = 300

\* C26: Update pads or cuts the text to exactly the field width, stores it as
\* the previous text, and at every position whose character it does not change
\* leaves the cell's state, blink phase and start time as they were.
C26_UpdateTouchesChangedOnly ==
    [][FieldStep("Update") =>
          /\ Len(at'.OldText) = at.MaxLength
          /\ at'.OldText = PadOrTruncate(last'.arg, at.MaxLength)
          /\ at'.MaxLength = at.MaxLength
          /\ \A p \in 1..at.MaxLength :
                (~CharChanges(p) /\ at.Chars[p] # Nil) => at'.Chars[p] = at.Chars[p]]_vars

\* C26 happened: an Update changed one character of a field whose other cell
\* goes on blinking, in its light phase, from its earlier start
C26_Witness ==
    /\ last.op = "Update"
    /\ at.MaxLength = 2
    /\ at.Chars[1] # Nil /\ at.Chars[2] # Nil
    /\ \E p, q \in 1..2 :
          /\ at.Chars[p].State = "Blinking" /\ at.Chars[p].StartTime = now
          /\ at.Chars[q].State = "Blinking" /\ at.Chars[q].StartTime < now
          /\ at.Chars[q].BlinkPhase = 1
          /\ at.OldText[q] = at.Chars[q].NewChar

\* what Render shows for a cell
GlyphOf(cell) ==
    CASE cell.State = "Blinking" /\ cell.BlinkPhase = 0 -> "#solid"
      [] cell.State = "Blinking" /\ cell.BlinkPhase = 1 -> "#light"
      [] cell.State \in {"Complete", "Stable"} -> cell.NewChar

\* C30: after a Tick on a Blinking cell its blink phase is
\* floor(elapsed ms / 100) mod 2, 0 or 1; Render shows the solid block for a
\* Blinking cell of phase 0, the light block for phase 1, and the new character
\* for a Complete or Stable cell; right after an Update that changed the
\* character it shows the solid block.
C30_BlinkPhaseAndGlyph ==
    [][\A p \in 1..at.MaxLength :
          LET c == at.Chars[p]
              d == at'.Chars[p]
          IN  /\ (FieldStep("Tick") /\ c # Nil /\ c.State = "Blinking") =>
                    /\ d.BlinkPhase = ((now - c.StartTime) \div 100) % 2
                    /\ d.BlinkPhase \in {0, 1}
              /\ (FieldStep("Update") /\ CharChanges(p)) =>
                    AnimatedTextRender(at')[p] = "#solid"
              /\ (FieldStep("Render") /\ c # Nil) => last'.ret[p] = GlyphOf(c)
              /\ d # Nil => AnimatedTextRender(at')[p] = GlyphOf(d)]_vars

\* C30 happened: Render showed the light block for one cell and the new
\* character for a Complete one
C30_Witness ==
    /\ last.op = "Render"
    /\ at.MaxLength = 2
    /\ at.Chars[1] # Nil /\ at.Chars[2] # Nil
    /\ \E p, q \in 1..2 :
          /\ at.Chars[p].State = "Blinking" /\ last.ret[p] = "#light"
          /\ at.Chars[q].State = "Complete" /\ last.ret[q] = "A"

-----------------------------------------------------------------------------
(* UpdateFlights with the same list again: C28 (Spec) *)

\* the snapshots the rows of the board hold, in the order of the row list
SnapshotsOnBoard == [i \in 1..Len(board.Flights) |-> rows[board.Flights[i]].Flight]

\* the list was handed to UpdateFlights before, under the time zone the board
\* has now: the rows hold its converted snapshots in its sorted order
AppliedBefore(list) == SnapshotsOnBoard = SortedFlights(board, list)

\* C28: UpdateFlights called a second time with the same list (no flight number
\* twice, the board's time zone unchanged) keeps the same row objects in the
\* same order, starts no animation (no cell changes, no start time is reset)
\* and leaves CurrentPage and TotalPages as they were.
C28_SameListChangesNothing ==
    [][(UpdateStep /\ DistinctKeys(last'.arg) /\ AppliedBefore(last'.arg)) =>
          /\ board'.Flights = board.Flights
          /\ rows' = rows
          /\ board'.CurrentPage = board.CurrentPage
          /\ board'.TotalPages = board.TotalPages]_vars

\* C28 happened: a list of two flights was applied a second time while the
\* second page was shown and cells of its rows were blinking from an earlier
\* start
C28_Witness ==
    /\ last.op = "UpdateFlights"
    /\ nUpdates = 2
    /\ Len(last.arg) = 2
    /\ DistinctKeys(last.arg)
    /\ last.flights = board.Flights
    /\ AppliedBefore(last.arg)
    /\ last.cp = 1
    /\ board.CurrentPage = 1
    /\ now > 0
    /\ \A i \in 1..2 : \A f \in FieldNames :
          \A p \in 1..rows[board.Flights[i]][f].MaxLength :
             rows[board.Flights[i]][f].Chars[p].StartTime < now
    /\ \E i \in 1..2 : "Blinking" \in CellStates(rows[board.Flights[i]].GateAnim)

-----------------------------------------------------------------------------
(* New rows and filler rows: C31 (SpecApp) *)

\* the character NewFlightRow seeds at position p of field f for a snapshot
SeededChar(flight, f, p) ==
    LET text == FieldArgs(flight)[f]
    IN  IF p <= Len(text) THEN text[p] ELSE " "

\* the cells of a row just created for its snapshot at time t
FreshlySeeded(row, t) ==
    \A f \in FieldNames : \A p \in 1..row[f].MaxLength :
        LET cell == row[f].Chars[p]
        IN  /\ cell # Nil
            /\ cell.NewChar = SeededChar(row.Flight, f, p)
            /\ IF SeededChar(row.Flight, f, p) # " "
               THEN cell.State = "Blinking" /\ cell.BlinkPhase = 0 /\ cell.StartTime = t
               ELSE cell.State = "Stable"

\* a row created without a snapshot: no cell set, blank, nothing to animate
BlankFiller(row) ==
    /\ row.Flight = Nil
    /\ \A f \in FieldNames :
          /\ \A p \in 1..row[f].MaxLength : row[f].Chars[p] = Nil
          /\ ~IsAnimating(row[f])
          /\ AnimatedTextRender(row[f]) = Spaces(row[f].MaxLength)
    /\ FlightRowRender(row) = Spaces(68)
    /\ FlightRowTick(row, now) = row

\* the filler rows of the page shown
FillersOfPage ==
    LET page == GetCurrentPageFlights(board)
    IN  {i \in 1..Len(page) : page[i] = Filler}

\* C31: a row newly created for a snapshot has every cell whose seeded
\* character is not a space Blinking and every cell whose seeded character is
\* a space Stable; a filler row has no cell set, renders blank and has no
\* Blinking cell.
C31_NewRowsFlipIn ==
    /\ [](/\ \A i \in FillersOfPage :
                BlankFiller(PageRow(GetCurrentPageFlights(board)[i], rows))
          /\ (last.op = "View" /\ last.ret.frame # <<>> /\ Len(board.Flights) = 0) =>
                \A i \in 1..Len(last.ret.frame) :
                   last.ret.frame[i].style = "Row" => last.ret.frame[i].text = Spaces(68))
    /\ [][UpdateStep =>
             \A r \in RowRefs :
                (rows[r] = Nil /\ rows'[r] # Nil) => FreshlySeeded(rows'[r], now)]_vars

\* C31 happened: a fetch result made a new row whose gate is blank beside a row
\* kept from before, and a frame of fillers only was drawn earlier or later
C31_Witness ==
    /\ last.op = "flightsMsg"
    /\ Len(board.Flights) = 2
    /\ Len(last.flights) = 1
    /\ \E i \in 1..2 :
          LET row == rows[board.Flights[i]]
          IN  /\ board.Flights[i] \notin Range(last.flights)
              /\ FreshlySeeded(row, now)
              /\ CellStates(row.GateAnim) = {"Blinking"}
              /\ {"Blinking", "Stable"} \subseteq CellStates(row.TimeAnim)
    /\ \E i \in 1..2 : CellStates(rows[board.Flights[i]].GateAnim) = {"Stable"}

\* a frame whose only row is a filler
C31_FillerDrawn ==
    /\ last.op = "View"
    /\ last.ret.frame # <<>>
    /\ FillersOfPage = {1}
    /\ \E i \in 1..Len(last.ret.frame) :
          last.ret.frame[i].style = "Row" /\ last.ret.frame[i].text = Spaces(68)

-----------------------------------------------------------------------------
(* The airport code and the prompt: C32 (SpecKeys) *)

\* the letters of the codes and keys of the model
UpperLetters == {"A", "Q", "L", "H", "R"}

ThreeLetterCodes == {x \o y \o z : x, y, z \in UpperLetters}

\* Enter is pressed in the prompt with three letters typed
CodeEntered ==
    /\ app.inputMode
    /\ last'.arg = "enter"
    /\ Len(app.airportInput) = 3

\* C32: the model's airport code is the board's AirportCode and is three
\* letters A-Z, and the input buffer holds at most three uppercase letters; the
\* airport code changes only when Enter is pressed in input mode with exactly
\* three letters typed; Esc, Backspace, any other key and Enter with fewer
\* letters leave the airport code, the board and the fetches in flight as they
\* were.
C32_AirportCodeAndPrompt ==
    /\ [](/\ app.airportCode = board.AirportCode
          /\ app.airportCode \in ThreeLetterCodes
          /\ Len(app.airportInput) <= 3
          /\ \A i \in 1..Len(app.airportInput) : app.airportInput[i] \in UpperLetters)
    /\ [][/\ (MsgStep("KeyMsg") /\ CodeEntered) =>
                /\ app'.airportCode = CodeString(app.airportInput)
                /\ board'.AirportCode = app'.airportCode
                /\ Len(app'.fetches) = Len(app.fetches) + 1
          /\ (MsgStep("KeyMsg") /\ ~CodeEntered) =>
                /\ app'.airportCode = app.airportCode
                /\ board' = board
                /\ app'.fetches = app.fetches
          /\ ~MsgStep("KeyMsg") => app'.airportCode = app.airportCode]_vars

\* C32 happened: Q, Backspace, A, Q, A and Enter changed the airport to AQA
\* after an Enter with too few letters had been turned down
C32_Witness ==
    /\ last.op = "KeyMsg"
    /\ last.arg = "enter"
    /\ last.ret = "fetchFlights"
    /\ app.airportCode = "AQA"
    /\ board.AirportCode = "AQA"
    /\ ~app.inputMode
    /\ app.airportInput = <<>>

\* Enter with two letters typed closed the prompt and changed nothing
C32_EnterTurnedDown ==
    /\ last.op = "KeyMsg"
    /\ last.arg = "enter"
    /\ last.ret = "nil"
    /\ ~app.inputMode
    /\ app.airportCode = "LHR"

====
